---- MODULE Spec2Model ----
(***************************************************************************)
(* A model of the game aggregate of src/nba/models/game_model.py: the      *)
(* typed events (BaseEvent and its filters), the Game root object and its  *)
(* read-only query methods.                                                *)
(*                                                                         *)
(* Python values are encoded as follows.                                   *)
(*   - Optional[T]: None is the empty tuple, a present value v is <<v>>.   *)
(*   - str values that the code parses or re-cases (clock, score_home,     *)
(*     score_away, action_type, game_clock) are sequences of one-character *)
(*     strings, so that split, int() and lower() are computed, not         *)
(*     assumed.  Flags that are only compared ("1", "Made") are strings.   *)
(*   - a list of events is a sequence of references: the indices of the    *)
(*     events in play_by_play.actions.  A list object also carries its     *)
(*     identity ("stored" for play_by_play.actions itself, "new" for a     *)
(*     list a comprehension built).                                        *)
(*   - attributes an event may or may not have (pydantic extra='allow',    *)
(*     or the fields of a ShotEvent) live in the record e.extra; hasattr   *)
(*     is membership in its DOMAIN.                                        *)
(*   - a call's outcome is [exc |-> "none", val |-> v] or                  *)
(*     [exc |-> <exception type>, val |-> None].                           *)
(***************************************************************************)
EXTENDS Integers, Sequences, FiniteSets, TLC

VARIABLES game, call, ret, name_mapping, rebuild, db

vars == <<game, call, ret, name_mapping, rebuild, db>>

\* The objects of the other packages: the roster parser's name index and its
\* running rebuild, and the statistics database.
others == <<name_mapping, rebuild, db>>

\* Longest play-by-play list of a game of the model.
MaxEvents == 3

None == <<>>
Some(v) == <<v>>

Return(v) == [exc |-> "none", val |-> v]
Raise(e) == [exc |-> e, val |-> None]

Min(a, b) == IF a <= b THEN a ELSE b
Abs(a) == IF a < 0 THEN 0 - a ELSE a

(***************************************************************************)
(* str operations                                                          *)
(***************************************************************************)
Digits == <<"0", "1", "2", "3", "4", "5", "6", "7", "8", "9">>
UpperChars == <<"A", "B", "C", "D", "E", "F", "G", "H", "I", "J", "K", "L", "M",
                "N", "O", "P", "Q", "R", "S", "T", "U", "V", "W", "X", "Y", "Z">>
LowerChars == <<"a", "b", "c", "d", "e", "f", "g", "h", "i", "j", "k", "l", "m",
                "n", "o", "p", "q", "r", "s", "t", "u", "v", "w", "x", "y", "z">>

IsDigit(c) == \E i \in DOMAIN Digits : Digits[i] = c
DigitVal(c) == (CHOOSE i \in DOMAIN Digits : Digits[i] = c) - 1

RECURSIVE DigitsVal(_)
DigitsVal(s) ==
    IF s = <<>> THEN 0
    ELSE 10 * DigitsVal(SubSeq(s, 1, Len(s) - 1)) + DigitVal(s[Len(s)])

AllDigits(s) == Len(s) > 0 /\ \A i \in DOMAIN s : IsDigit(s[i])

\* int(s) for a str s over digits, signs and other characters: an optional
\* sign followed by at least one digit, anything else is a ValueError.
PyInt(s) ==
    LET signed == Len(s) > 0 /\ s[1] \in {"-", "+"}
        body == IF signed THEN Tail(s) ELSE s
    IN  IF AllDigits(body)
        THEN Return(IF signed /\ s[1] = "-" THEN 0 - DigitsVal(body) ELSE DigitsVal(body))
        ELSE Raise("ValueError")

\* c in s
Contains(s, c) == \E i \in DOMAIN s : s[i] = c

\* s.split(c)[0]: the text before the first c (all of s when c is not in s)
SplitHead(s, c) ==
    IF Contains(s, c)
    THEN SubSeq(s, 1, (CHOOSE i \in DOMAIN s : s[i] = c /\ \A j \in 1..(i - 1) : s[j] # c) - 1)
    ELSE s

\* s.split(c, 1)[1]: the text after the first c
SplitRest(s, c) ==
    SubSeq(s, (CHOOSE i \in DOMAIN s : s[i] = c /\ \A j \in 1..(i - 1) : s[j] # c) + 1, Len(s))

LowerChar(c) ==
    IF \E i \in DOMAIN UpperChars : UpperChars[i] = c
    THEN LowerChars[CHOOSE i \in DOMAIN UpperChars : UpperChars[i] = c]
    ELSE c

\* s.lower()
Lower(s) == [i \in DOMAIN s |-> LowerChar(s[i])]

\* bool(x) of an Optional[str]: None and "" are falsy
Truthy(opt) == opt # None /\ opt[1] # <<>>

\* the decimal digits of a natural number
RECURSIVE Dec(_)
Dec(n) == IF n < 10 THEN <<Digits[n + 1]>> ELSE Dec(n \div 10) \o <<Digits[(n % 10) + 1]>>

\* f"{n:02d}" without the zero padding
Format02dUnpadded(n) == Dec(n)

\* f"{n:02d}"
Format02d(n) == IF n < 10 THEN <<"0">> \o Dec(n) ELSE Dec(n)

(***************************************************************************)
(* BaseEvent: the filters and the importance score.  `acts` is the stored  *)
(* event sequence the references of a list point into.                     *)
(***************************************************************************)
NewList(items) == [id |-> "new", items |-> items]
StoredList(acts) == [id |-> "stored", items |-> [i \in DOMAIN acts |-> i]]

\* filter_by_team that keeps every event
FilterByTeamKeepsAll(acts, events, team_id) == NewList(events.items)

\* BaseEvent.filter_by_team
FilterByTeam(acts, events, team_id) ==
    NewList(SelectSeq(events.items, LAMBDA i : acts[i].team_id = Some(team_id)))

\* BaseEvent.filter_by_player
FilterByPlayer(acts, events, player_id) ==
    NewList(SelectSeq(events.items, LAMBDA i : acts[i].person_id = Some(player_id)))

\* filter_by_period that builds its result back to front
FilterByPeriodReversed(acts, events, period) ==
    LET kept == SelectSeq(events.items, LAMBDA i : acts[i].period = period)
    IN  NewList([k \in DOMAIN kept |-> kept[Len(kept) + 1 - k]])

\* BaseEvent.filter_by_period
FilterByPeriod(acts, events, period) ==
    NewList(SelectSeq(events.items, LAMBDA i : acts[i].period = period))

\* the clutch condition without its test for a colon
ClutchReachesIntWithoutColonTest(e) == e.period >= 4

\* The condition of the comprehension of filter_by_clutch_time, evaluated
\* left to right with Python's short-circuit `and`: int() is reached only
\* for an event of period >= 4 whose clock holds a colon.
ClutchReachesInt(e) == e.period >= 4 /\ Contains(e.clock, ":")
ClutchMinutes(e) == PyInt(SplitHead(e.clock, ":"))

\* BaseEvent.filter_by_clutch_time
FilterByClutchTime(acts, events, minutes) ==
    IF \E k \in DOMAIN events.items :
          /\ ClutchReachesInt(acts[events.items[k]])
          /\ ClutchMinutes(acts[events.items[k]]).exc # "none"
    THEN Raise("ValueError")
    ELSE Return(NewList(SelectSeq(events.items,
                  LAMBDA i : /\ ClutchReachesInt(acts[i])
                             /\ ClutchMinutes(acts[i]).val <= minutes)))

\* BaseEvent.filter_multi; team_id, player_id and period are Optional
FilterMulti(acts, events, team_id, player_id, period, is_clutch, clutch_minutes) ==
    LET f1 == IF team_id # None THEN FilterByTeam(acts, events, team_id[1]) ELSE events
        f2 == IF player_id # None THEN FilterByPlayer(acts, f1, player_id[1]) ELSE f1
        f3 == IF period # None THEN FilterByPeriod(acts, f2, period[1]) ELSE f2
    IN  IF is_clutch THEN FilterByClutchTime(acts, f3, clutch_minutes) ELSE Return(f3)

HighImportanceTypes ==
    {<<"2", "p", "t">>, <<"3", "p", "t">>, <<"d", "u", "n", "k">>,
     <<"b", "l", "o", "c", "k">>, <<"s", "t", "e", "a", "l">>}
MediumImportanceTypes ==
    {<<"r", "e", "b", "o", "u", "n", "d">>, <<"a", "s", "s", "i", "s", "t">>,
     <<"f", "o", "u", "l">>}

\* the three steps of BaseEvent.calculate_importance, in the code's order
ImportanceOfType(e) ==
    IF Lower(e.action_type) \in HighImportanceTypes THEN 3
    ELSE IF Lower(e.action_type) \in MediumImportanceTypes THEN 2
    ELSE 0

ImportanceOfClutch(e) ==
    IF e.period >= 4 /\ Contains(e.clock, ":")
    THEN LET minutes == PyInt(SplitHead(e.clock, ":"))
         IN  IF minutes.exc # "none" THEN minutes
             ELSE Return(IF minutes.val <= 2 THEN 1 ELSE 0)
    ELSE Return(0)

\* the score step with a margin of 5 no longer counted as close
ImportanceOfScoreStrict(e) ==
    IF Truthy(e.score_home) /\ Truthy(e.score_away)
    THEN LET home == PyInt(e.score_home[1])
             away == PyInt(e.score_away[1])
         IN  IF home.exc # "none" THEN home
             ELSE IF away.exc # "none" THEN away
             ELSE Return(IF Abs(home.val - away.val) < 5 THEN 1 ELSE 0)
    ELSE Return(0)

ImportanceOfScore(e) ==
    IF Truthy(e.score_home) /\ Truthy(e.score_away)
    THEN LET home == PyInt(e.score_home[1])
             away == PyInt(e.score_away[1])
         IN  IF home.exc # "none" THEN home
             ELSE IF away.exc # "none" THEN away
             ELSE Return(IF Abs(home.val - away.val) <= 5 THEN 1 ELSE 0)
    ELSE Return(0)

\* BaseEvent.calculate_importance
CalculateImportance(e) ==
    LET clutch == ImportanceOfClutch(e)
        score == ImportanceOfScore(e)
    IN  IF clutch.exc # "none" THEN clutch
        ELSE IF score.exc # "none" THEN score
        ELSE Return(Min(ImportanceOfType(e) + clutch.val + score.val, 5))

(***************************************************************************)
(* TimeHandler.parse_duration (utils/time_handler.py): "PT", an optional   *)
(* <int>M, an optional <float>S; whole seconds, half rounded up; a format  *)
(* error is a ValueError.                                                  *)
(***************************************************************************)
ParseDuration(s) ==
    IF Len(s) < 2 \/ SubSeq(s, 1, 2) # <<"P", "T">> THEN Raise("ValueError")
    ELSE LET body == SubSeq(s, 3, Len(s))
             hasM == Contains(body, "M")
             mtxt == SplitHead(body, "M")
             rest == IF hasM THEN SplitRest(body, "M") ELSE body
             hasS == Contains(rest, "S")
             stxt == SplitHead(rest, "S")
             hasDot == Contains(stxt, ".")
             whole == SplitHead(stxt, ".")
             frac == IF hasDot THEN SplitRest(stxt, ".") ELSE <<>>
             mOK == hasM => AllDigits(mtxt)
             sOK == IF hasS
                    THEN /\ SplitRest(rest, "S") = <<>>
                         /\ AllDigits(whole)
                         /\ hasDot => AllDigits(frac)
                    ELSE rest = <<>>
         IN  IF mOK /\ sOK
             THEN Return(60 * (IF hasM THEN DigitsVal(mtxt) ELSE 0)
                         + (IF hasS THEN DigitsVal(whole) ELSE 0)
                         + (IF hasS /\ hasDot /\ DigitVal(frac[1]) >= 5 THEN 1 ELSE 0))
             ELSE Raise("ValueError")

(***************************************************************************)
(* Game: the query methods.  g is the Game object.                         *)
(***************************************************************************)
HasPlayByPlay(g) == g.play_by_play # None
Actions(g) == g.play_by_play[1].actions

\* get_game_status with the two teams' scores exchanged
GetGameStatusScoresSwapped(g) ==
    LET game_data == g.game_data
        parsed == ParseDuration(game_data.game_clock)
        time_remaining ==
            IF parsed.exc = "none"
            THEN Format02d(parsed.val \div 60) \o <<":">> \o Format02d(parsed.val % 60)
            ELSE game_data.game_clock
    IN  Return([status_text |-> game_data.game_status_text,
                period_name |-> <<"P", "e", "r", "i", "o", "d", " ">> \o Dec(game_data.period),
                current_period |-> game_data.period,
                time_remaining |-> time_remaining,
                away_score |-> game_data.home_team.score,
                home_score |-> game_data.away_team.score,
                away_timeouts |-> game_data.away_team.timeouts_remaining,
                home_timeouts |-> game_data.home_team.timeouts_remaining,
                home_bonus |-> (game_data.home_team.in_bonus = "1"),
                away_bonus |-> (game_data.away_team.in_bonus = "1")])

\* Game.get_game_status
GetGameStatus(g) ==
    LET game_data == g.game_data
        time_remaining_str == game_data.game_clock
        parsed == ParseDuration(time_remaining_str)
        time_remaining ==
            IF parsed.exc = "none"
            THEN Format02d(parsed.val \div 60) \o <<":">> \o Format02d(parsed.val % 60)
            ELSE time_remaining_str
    IN  Return([status_text |-> game_data.game_status_text,
                period_name |-> <<"P", "e", "r", "i", "o", "d", " ">> \o Dec(game_data.period),
                current_period |-> game_data.period,
                time_remaining |-> time_remaining,
                away_score |-> game_data.away_team.score,
                home_score |-> game_data.home_team.score,
                away_timeouts |-> game_data.away_team.timeouts_remaining,
                home_timeouts |-> game_data.home_team.timeouts_remaining,
                home_bonus |-> (game_data.home_team.in_bonus = "1"),
                away_bonus |-> (game_data.away_team.in_bonus = "1")])

\* Game._active_players
ActivePlayers(players) ==
    LET on == SelectSeq(players, LAMBDA p : p.on_court = "1")
    IN  [k \in DOMAIN on |->
            [id |-> on[k].person_id, name |-> on[k].name, position |-> on[k].position]]

\* Game.get_current_lineup
GetCurrentLineup(g) ==
    Return([home |-> ActivePlayers(g.game_data.home_team.players),
            away |-> ActivePlayers(g.game_data.away_team.players)])

\* get_team_stats whose second branch returns the home team again
GetTeamStatsHomeTwice(g, team_id) ==
    IF g.game_data.home_team.team_id = team_id THEN Return(Some(g.game_data.home_team))
    ELSE IF g.game_data.away_team.team_id = team_id THEN Return(Some(g.game_data.home_team))
    ELSE Return(None)

\* Game.get_team_stats
GetTeamStats(g, team_id) ==
    IF g.game_data.home_team.team_id = team_id THEN Return(Some(g.game_data.home_team))
    ELSE IF g.game_data.away_team.team_id = team_id THEN Return(Some(g.game_data.away_team))
    ELSE Return(None)

\* the first player of a roster with the given id, None when there is none
FirstPlayer(players, player_id) ==
    LET found == SelectSeq(players, LAMBDA p : p.person_id = player_id)
    IN  IF found = <<>> THEN None ELSE Some(found[1])

\* Game.get_player_stats
GetPlayerStats(g, player_id) ==
    LET home == FirstPlayer(g.game_data.home_team.players, player_id)
        away == FirstPlayer(g.game_data.away_team.players, player_id)
    IN  IF home # None THEN Return(home) ELSE Return(away)

\* Game.filter_events; every argument is Optional, action_types a set
FilterEvents(g, period, team_id, player_id, action_types) ==
    IF ~HasPlayByPlay(g) \/ Actions(g) = <<>> THEN Return(NewList(<<>>))
    ELSE LET filtered_events ==
                 FilterMulti(Actions(g), StoredList(Actions(g)),
                             team_id, player_id, period, FALSE, 2)
         IN  IF action_types # None /\ action_types[1] # {}
             THEN Return(NewList(SelectSeq(filtered_events.val.items,
                        LAMBDA i : Actions(g)[i].action_type \in action_types[1])))
             ELSE filtered_events

ShotTypes == {<<"2", "p", "t">>, <<"3", "p", "t">>}

HasAttr(e, name) == name \in DOMAIN e.extra

\* getattr(e, name, None)
GetAttrOrNone(e, name) == IF HasAttr(e, name) THEN e.extra[name] ELSE None

\* the shot record with the assisted flag set by hasattr alone
ShotRecordAssistedByAttr(action) ==
    [shot_result |-> GetAttrOrNone(action, "shot_result"),
     player_id |-> action.person_id,
     team_id |-> action.team_id,
     period |-> action.period,
     action_type |-> action.action_type,
     time |-> action.clock,
     assisted |-> HasAttr(action, "assist_person_id"),
     assist_player_id |-> GetAttrOrNone(action, "assist_person_id")]

\* the record get_shot_data appends for one event (x_legacy, y_legacy,
\* description and assist_player_name are copied the same way and left out)
ShotRecord(action) ==
    [shot_result |-> GetAttrOrNone(action, "shot_result"),
     player_id |-> action.person_id,
     team_id |-> action.team_id,
     period |-> action.period,
     action_type |-> action.action_type,
     time |-> action.clock,
     assisted |-> (HasAttr(action, "assist_person_id")
                   /\ action.extra.assist_person_id # None),
     assist_player_id |-> GetAttrOrNone(action, "assist_person_id")]

\* player_id is not None and action.person_id != player_id
IsOtherPlayer(action, player_id) == player_id # None /\ action.person_id # player_id

\* the loop of get_shot_data from event i on; player_id is Optional
RECURSIVE ShotLoop(_, _, _, _)
ShotLoop(acts, i, player_id, shot_data) ==
    IF i > Len(acts) THEN shot_data
    ELSE IF acts[i].action_type \in ShotTypes
         THEN IF IsOtherPlayer(acts[i], player_id)
              THEN ShotLoop(acts, i + 1, player_id, shot_data)
              ELSE ShotLoop(acts, i + 1, player_id, Append(shot_data, ShotRecord(acts[i])))
         ELSE ShotLoop(acts, i + 1, player_id, shot_data)

\* Game.get_shot_data
GetShotData(g, player_id) ==
    IF HasPlayByPlay(g) /\ Actions(g) # <<>>
    THEN Return(ShotLoop(Actions(g), 1, player_id, <<>>))
    ELSE Return(<<>>)

\* the record get_assisted_shot_data appends for one event (x, y,
\* shooter_name and description are copied the same way and left out)
AssistedShotRecord(action) ==
    [shot_type |-> action.action_type,
     shooter_id |-> action.person_id,
     team_id |-> action.team_id,
     period |-> action.period,
     time |-> action.clock,
     area |-> GetAttrOrNone(action, "area"),
     distance |-> GetAttrOrNone(action, "shot_distance")]

\* the condition without the test that the shot was made
IsAssistOfAnyResult(action, passer_id) ==
    IF HasAttr(action, "assist_person_id")
       /\ action.extra.assist_person_id = Some(passer_id)
    THEN IF ~HasAttr(action, "shot_result") THEN Raise("AttributeError")
         ELSE Return(TRUE)
    ELSE Return(FALSE)

\* the condition of get_assisted_shot_data on a shot event, evaluated left
\* to right: action.shot_result is read, and raises AttributeError when the
\* event has no such attribute, only once the assist reference was found
\* equal to passer_id.
IsMadeAssistOf(action, passer_id) ==
    IF HasAttr(action, "assist_person_id")
       /\ action.extra.assist_person_id = Some(passer_id)
    THEN IF ~HasAttr(action, "shot_result") THEN Raise("AttributeError")
         ELSE Return(action.extra.shot_result = Some("Made"))
    ELSE Return(FALSE)

\* the loop of get_assisted_shot_data from event i on
RECURSIVE AssistedShotLoop(_, _, _, _)
AssistedShotLoop(acts, i, passer_id, assisted_shots) ==
    IF i > Len(acts) THEN Return(assisted_shots)
    ELSE IF acts[i].action_type \notin ShotTypes
         THEN AssistedShotLoop(acts, i + 1, passer_id, assisted_shots)
         ELSE LET cond == IsMadeAssistOf(acts[i], passer_id)
              IN  IF cond.exc # "none" THEN cond
                  ELSE IF cond.val
                       THEN AssistedShotLoop(acts, i + 1, passer_id,
                                Append(assisted_shots, AssistedShotRecord(acts[i])))
                       ELSE AssistedShotLoop(acts, i + 1, passer_id, assisted_shots)

\* Game.get_assisted_shot_data
GetAssistedShotData(g, passer_id) ==
    IF HasPlayByPlay(g) /\ Actions(g) # <<>>
    THEN AssistedShotLoop(Actions(g), 1, passer_id, <<>>)
    ELSE Return(<<>>)

\* the played test that lets every roster entry through
HasPlayedAlways(player) == TRUE

\* player.played == "1"
HasPlayed(player) == player.played = "1"

\* the loop of get_team_shot_data over the roster of the target team;
\* team_shots is the dict built so far (a function from person ids)
RECURSIVE TeamShotLoop(_, _, _, _)
TeamShotLoop(g, players, i, team_shots) ==
    IF i > Len(players) THEN Return(team_shots)
    ELSE IF HasPlayed(players[i])
         THEN LET shots == GetShotData(g, Some(players[i].person_id))
              IN  IF shots.exc # "none" THEN shots
                  ELSE IF shots.val # <<>>
                       THEN TeamShotLoop(g, players, i + 1,
                                (players[i].person_id :> shots.val) @@ team_shots)
                       ELSE TeamShotLoop(g, players, i + 1, team_shots)
         ELSE TeamShotLoop(g, players, i + 1, team_shots)

\* Game.get_team_shot_data: any exception of the body is caught and the
\* empty dict returned
GetTeamShotData(g, team_id) ==
    LET home_team == g.game_data.home_team
        away_team == g.game_data.away_team
        target_team == IF home_team.team_id = team_id THEN Some(home_team)
                       ELSE IF away_team.team_id = team_id THEN Some(away_team)
                       ELSE None
    IN  IF target_team = None THEN Return(<<>>)
        ELSE LET body == TeamShotLoop(g, target_team[1].players, 1, <<>>)
             IN  IF body.exc # "none" THEN Return(<<>>) ELSE body

(***************************************************************************)
(* The games of the model.                                                 *)
(***************************************************************************)
T2pt == <<"2", "p", "t">>
T3pt == <<"3", "p", "t">>
TRebound == <<"r", "e", "b", "o", "u", "n", "d">>
Clock1138 == <<"1", "1", ":", "3", "8">>

Event(action_type, period, clock, team_id, person_id, score_home, score_away, extra) ==
    [action_type |-> action_type, period |-> period, clock |-> clock,
     team_id |-> team_id, person_id |-> person_id,
     score_home |-> score_home, score_away |-> score_away, extra |-> extra]

\* the attributes of a ShotEvent instance
ShotAttrs(shot_result, assist_person_id) ==
    [shot_result |-> Some(shot_result), assist_person_id |-> assist_person_id,
     area |-> Some("Paint"), shot_distance |-> Some(4)]

\* a BaseEvent built from a raw payload: no attribute beyond the base fields
NoAttrs == [n \in {} |-> None]

Player(person_id, name, played, on_court) ==
    [person_id |-> person_id, name |-> name, position |-> None,
     played |-> played, on_court |-> on_court]

Team(team_id, score, in_bonus, timeouts_remaining, players) ==
    [team_id |-> team_id, score |-> score, in_bonus |-> in_bonus,
     timeouts_remaining |-> timeouts_remaining, players |-> players]

GameData(status_text, period, game_clock, home_team, away_team) ==
    [game_status_text |-> status_text, period |-> period, game_clock |-> game_clock,
     home_team |-> home_team, away_team |-> away_team]

MkGame(game_data, play_by_play) == [game_data |-> game_data, play_by_play |-> play_by_play]

PlayByPlay(actions) == Some([actions |-> actions])

BoundedSeq(S, n) == UNION {[1..k -> S] : k \in 0..n}

TeamIds == {10, 20}
PlayerIds == {1, 2, 3}

\* rosters: players 1 and 2 on the home team, player 3 on the away team
HomeRosters ==
    {<<Player(1, "A", "1", "1"), Player(2, "B", "0", "0")>>,
     <<Player(1, "A", "0", "0"), Player(2, "B", "1", "1")>>}
AwayRosters ==
    {<<Player(3, "C", "1", "1")>>, <<Player(3, "C", "0", "0")>>}

DefaultGameData ==
    GameData("Q4 05:30", 4, <<"P", "T", "0", "5", "M", "3", "0", ".", "0", "0", "S">>,
             Team(10, 98, "1", 2, <<Player(1, "A", "1", "1"), Player(2, "B", "1", "0")>>),
             Team(20, 101, "0", 5, <<Player(3, "C", "1", "1")>>))

\* events that differ in the fields filter_events reads: a team event of
\* player 1 or an event without team and player, of either type and period
FilterPool ==
    {Event(t, p, Clock1138, who[1], who[2], None, None, NoAttrs) :
        t \in {T2pt, TRebound}, p \in {1, 4},
        who \in {<<None, None>>, <<Some(10), Some(1)>>}}

\* events that differ in what the shot projections read: ShotEvent
\* instances (made, missed, assisted or not), shot-type BaseEvents without
\* the shot attributes, one that carries an assist reference and no shot
\* result, and an event that is no shot
ShotPool ==
    {Event(T2pt, 1, Clock1138, Some(10), Some(1), None, None, ShotAttrs("Made", Some(2))),
     Event(T3pt, 4, Clock1138, Some(10), Some(1), None, None, ShotAttrs("Missed", Some(2))),
     Event(T3pt, 4, Clock1138, Some(10), Some(2), None, None, ShotAttrs("Made", Some(1))),
     Event(T2pt, 2, Clock1138, Some(20), Some(3), None, None, ShotAttrs("Made", None)),
     Event(T2pt, 2, Clock1138, Some(10), Some(1), None, None, NoAttrs),
     Event(T3pt, 3, Clock1138, Some(10), Some(1), None, None,
           [assist_person_id |-> Some(2)]),
     Event(TRebound, 3, Clock1138, Some(10), Some(2), None, None, NoAttrs)}

\* games that differ in the status fields, without play-by-play
StatusGames ==
    {MkGame(GameData("Final", p, c,
                     Team(10, sc[1], hb, to[1], <<Player(1, "A", "1", "1")>>),
                     Team(20, sc[2], ab, to[2], <<Player(3, "C", "1", "1")>>)), None) :
        p \in {1, 4},
        c \in {<<"P", "T", "0", "5", "M", "3", "0", ".", "0", "0", "S">>,
               <<"P", "T", "0", "0", "M", "0", "9", ".", "6", "0", "S">>,
               <<>>, <<"5", ":", "3", "0">>},
        sc \in {<<98, 101>>, <<0, 98>>},
        hb \in {"0", "1"}, ab \in {"0", "1"},
        to \in {<<2, 5>>, <<5, 2>>}}

\* games that differ in the rosters and in the shots
RosterGames ==
    {MkGame(GameData("Q2", 2, <<>>, Team(10, 50, "0", 4, hr), Team(20, 48, "0", 4, ar)),
            PlayByPlay(acts)) :
        hr \in HomeRosters, ar \in AwayRosters,
        acts \in BoundedSeq(ShotPool, MaxEvents)}

\* games that differ in the events filter_events selects among
FilterGames ==
    {MkGame(DefaultGameData, PlayByPlay(acts)) : acts \in BoundedSeq(FilterPool, MaxEvents)}

(***************************************************************************)
(* The state machine: a constructed Game, and a caller that makes one      *)
(* query at a time and takes its result.                                   *)
(***************************************************************************)
Idle == [op |-> "idle"]

Games == StatusGames \cup RosterGames \cup FilterGames

Init ==
    /\ game \in Games
    /\ name_mapping = None
    /\ rebuild = None
    /\ db = None
    /\ call = Idle
    /\ ret = Return(None)

OptPeriods == {None, Some(4)}
OptTeams == {None} \cup {Some(t) : t \in TeamIds}
OptPlayers == {None, Some(1)}
OptActionTypes == {None, Some({}), Some({T2pt}), Some({T3pt, TRebound})}

\* filter_events that filters the stored list in place (actions[:] = ...)
CallFilterEventsInPlace ==
    /\ call = Idle
    /\ \E period \in OptPeriods, team_id \in OptTeams,
          player_id \in OptPlayers, action_types \in OptActionTypes :
          /\ call' = [op |-> "filter_events", period |-> period, team_id |-> team_id,
                      player_id |-> player_id, action_types |-> action_types]
          /\ ret' = FilterEvents(game, period, team_id, player_id, action_types)
          /\ game' = IF HasPlayByPlay(game)
                     THEN MkGame(game.game_data,
                                 PlayByPlay([k \in DOMAIN ret'.val.items |->
                                                Actions(game)[ret'.val.items[k]]]))
                     ELSE game
    /\ UNCHANGED others

CallFilterEvents ==
    /\ call = Idle
    /\ \E period \in OptPeriods, team_id \in OptTeams,
          player_id \in OptPlayers, action_types \in OptActionTypes :
          /\ call' = [op |-> "filter_events", period |-> period, team_id |-> team_id,
                      player_id |-> player_id, action_types |-> action_types]
          /\ ret' = FilterEvents(game, period, team_id, player_id, action_types)
    /\ UNCHANGED <<game, others>>

CallGetShotData ==
    /\ call = Idle
    /\ \E player_id \in {None} \cup {Some(p) : p \in PlayerIds} :
          /\ call' = [op |-> "get_shot_data", player_id |-> player_id]
          /\ ret' = GetShotData(game, player_id)
    /\ UNCHANGED <<game, others>>

CallGetAssistedShotData ==
    /\ call = Idle
    /\ \E passer_id \in PlayerIds :
          /\ call' = [op |-> "get_assisted_shot_data", passer_id |-> passer_id]
          /\ ret' = GetAssistedShotData(game, passer_id)
    /\ UNCHANGED <<game, others>>

CallGetTeamShotData ==
    /\ call = Idle
    /\ \E team_id \in TeamIds \cup {30} :
          /\ call' = [op |-> "get_team_shot_data", team_id |-> team_id]
          /\ ret' = GetTeamShotData(game, team_id)
    /\ UNCHANGED <<game, others>>

CallGetTeamStats ==
    /\ call = Idle
    /\ \E team_id \in TeamIds \cup {30} :
          /\ call' = [op |-> "get_team_stats", team_id |-> team_id]
          /\ ret' = GetTeamStats(game, team_id)
    /\ UNCHANGED <<game, others>>

CallGetPlayerStats ==
    /\ call = Idle
    /\ \E player_id \in PlayerIds \cup {4} :
          /\ call' = [op |-> "get_player_stats", player_id |-> player_id]
          /\ ret' = GetPlayerStats(game, player_id)
    /\ UNCHANGED <<game, others>>

CallGetGameStatus ==
    /\ call = Idle
    /\ call' = [op |-> "get_game_status"]
    /\ ret' = GetGameStatus(game)
    /\ UNCHANGED <<game, others>>

CallGetCurrentLineup ==
    /\ call = Idle
    /\ call' = [op |-> "get_current_lineup"]
    /\ ret' = GetCurrentLineup(game)
    /\ UNCHANGED <<game, others>>

\* the caller takes the result (or the exception) and may call again
TakeResult ==
    /\ call # Idle
    /\ call' = Idle
    /\ ret' = Return(None)
    /\ UNCHANGED <<game, others>>

\* the caller removes the last element of the list filter_events returned
\* (result.pop()) and goes on; when the returned list is the stored list
\* object itself, it is play_by_play.actions that loses the element
CallerPopsResult ==
    /\ call.op = "filter_events"
    /\ ret.exc = "none"
    /\ ret.val.items # <<>>
    /\ game' = IF ret.val.id = "stored"
               THEN MkGame(game.game_data,
                           PlayByPlay(SubSeq(Actions(game), 1, Len(Actions(game)) - 1)))
               ELSE game
    /\ call' = Idle
    /\ ret' = Return(None)
    /\ UNCHANGED others

Next ==
    \/ CallFilterEvents
    \/ CallGetShotData
    \/ CallGetAssistedShotData
    \/ CallGetTeamShotData
    \/ CallGetTeamStats
    \/ CallGetPlayerStats
    \/ CallGetGameStatus
    \/ CallGetCurrentLineup
    \/ CallerPopsResult
    \/ TakeResult

Spec == Init /\ [][Next]_vars

(***************************************************************************)
(* The BaseEvent methods on their own: calculate_importance of one stored  *)
(* event and filter_by_clutch_time of the stored list, over events that    *)
(* differ in the fields these two read.                                    *)
(***************************************************************************)
EventTypes ==
    {T3pt, <<"D", "u", "n", "k">>, TRebound, <<"t", "u", "r", "n", "o", "v", "e", "r">>}
EventPeriods == {3, 4, 5}

\* "1:30", "2:59", "3:00", and clocks that are no mm:ss text: without a
\* colon ("PT01M30.00S") and with a minute part that is no number ("x:30")
EventClocks ==
    {<<"1", ":", "3", "0">>, <<"2", ":", "5", "9">>, <<"3", ":", "0", "0">>,
     <<"P", "T", "0", "1", "M", "3", "0", ".", "0", "0", "S">>,
     <<"x", ":", "3", "0">>}

\* (score_home, score_away): absent, one absent, one empty, margins of 3, 5
\* and 6, and a score that is no number
EventScores ==
    {<<None, None>>,
     <<Some(<<"1", "0", "0">>), None>>,
     <<Some(<<>>), Some(<<"9", "7">>)>>,
     <<Some(<<"1", "0", "0">>), Some(<<"9", "7">>)>>,
     <<Some(<<"9", "7">>), Some(<<"1", "0", "2">>)>>,
     <<Some(<<"1", "0", "0">>), Some(<<"9", "4">>)>>,
     <<Some(<<"a", "b", "c">>), Some(<<"9", "7">>)>>}

ImportancePool ==
    {Event(t, p, c, Some(10), Some(1), sc[1], sc[2], NoAttrs) :
        t \in EventTypes, p \in EventPeriods, c \in EventClocks, sc \in EventScores}

ClutchPool ==
    {Event(T2pt, p, c, Some(10), Some(1), None, None, NoAttrs) :
        p \in EventPeriods, c \in EventClocks}

EventGames ==
    {MkGame(DefaultGameData, PlayByPlay(<<e>>)) : e \in ImportancePool}
    \cup {MkGame(DefaultGameData, PlayByPlay(acts)) : acts \in BoundedSeq(ClutchPool, MaxEvents)}

InitEvent ==
    /\ game \in EventGames
    /\ name_mapping = None
    /\ rebuild = None
    /\ db = None
    /\ call = Idle
    /\ ret = Return(None)

CallCalculateImportance ==
    /\ call = Idle
    /\ \E i \in DOMAIN Actions(game) :
          /\ call' = [op |-> "calculate_importance", index |-> i]
          /\ ret' = CalculateImportance(Actions(game)[i])
    /\ UNCHANGED <<game, others>>

CallFilterByClutchTime ==
    /\ call = Idle
    /\ \E minutes \in {0, 2, 3} :
          /\ call' = [op |-> "filter_by_clutch_time", minutes |-> minutes]
          /\ ret' = FilterByClutchTime(Actions(game), StoredList(Actions(game)), minutes)
    /\ UNCHANGED <<game, others>>

NextEvent ==
    \/ CallCalculateImportance
    \/ CallFilterByClutchTime
    \/ TakeResult

SpecEvent == InitEvent /\ [][NextEvent]_vars

(***************************************************************************)
(* Construction.  A payload is validated field by field; a statistics      *)
(* record first passes through its mode='before' validator, which adds the *)
(* derived values to the data, and the fields are validated afterwards.    *)
(* A float of two decimals (minutes_calculated) is held in hundredths.     *)
(***************************************************************************)
NoGame == None

DefaultMinutes == <<"P", "T", "0", "0", "M", "0", "0", ".", "0", "0", "S">>

\* data.get(key, 'PT00M00.00S')
GetOrDefault(data, key) == IF data[key] = None THEN DefaultMinutes ELSE data[key][1]

\* round(seconds / 60.0, 2), in hundredths: the nearest hundredth of
\* seconds / 60 (5 * seconds / 3 is never half-way between two integers)
RoundMinutes(seconds) == (10 * seconds + 3) \div 6

\* calculate_seconds that lets the format error of the parser through
CalculateSecondsUncaught(data) ==
    LET parsed == ParseDuration(GetOrDefault(data, "minutes"))
    IN  IF parsed.exc = "none"
        THEN Return([seconds_played |-> parsed.val,
                     minutes_calculated |-> RoundMinutes(parsed.val)] @@ data)
        ELSE parsed

\* PlayerStatistics.calculate_seconds: the data with the derived values
CalculateSeconds(data) ==
    LET minutes_str == GetOrDefault(data, "minutes")
        parsed == ParseDuration(minutes_str)
    IN  IF parsed.exc = "none"
        THEN Return([seconds_played |-> parsed.val,
                     minutes_calculated |-> RoundMinutes(parsed.val)] @@ data)
        ELSE Return([seconds_played |-> 0, minutes_calculated |-> 0] @@ data)

\* TeamStatistics.calculate_times: the data with the derived values
CalculateTimes(data) ==
    LET minutes == ParseDuration(GetOrDefault(data, "minutes"))
        leading == ParseDuration(GetOrDefault(data, "time_leading"))
    IN  Return([minutes_calculated |->
                    IF minutes.exc = "none" THEN RoundMinutes(minutes.val) ELSE 0,
                time_leading_calculated |->
                    IF leading.exc = "none" THEN RoundMinutes(leading.val) ELSE 0] @@ data)

\* the counts of a statistics record that are conint(ge=0)
CountFields ==
    {"field_goals_attempted", "field_goals_made",
     "three_pointers_attempted", "three_pointers_made",
     "free_throws_attempted", "free_throws_made"}

\* conint(ge=0) of every count
CountsValid(data) == \A f \in CountFields : data[f] >= 0

\* the fields of PlayerStatistics validated from the data the validator
\* returned; a key that is no field of the class (seconds_played) is ignored
PlayerStatisticsFields(data) ==
    IF ~CountsValid(data) THEN Raise("ValidationError")
    ELSE Return([f \in CountFields \cup {"minutes", "minutes_calculated"} |->
                    IF f = "minutes" THEN GetOrDefault(data, "minutes") ELSE data[f]])

\* the fields of TeamStatistics validated from the data the validator returned
TeamStatisticsFields(data) ==
    IF ~CountsValid(data) THEN Raise("ValidationError")
    ELSE Return([f \in CountFields \cup {"minutes", "minutes_calculated",
                                         "time_leading", "time_leading_calculated"} |->
                    IF f \in {"minutes", "time_leading"} THEN GetOrDefault(data, f)
                    ELSE data[f]])

\* one action of the payload validated as a BaseEvent: period is required
\* and may be any int
BaseEventValidate(raw) ==
    IF raw.period = None THEN Raise("ValidationError")
    ELSE Return(Event(raw.action_type, raw.period[1], Clock1138,
                      Some(10), Some(1), None, None, NoAttrs))

\* the actions of the payload validated in order into List[BaseEvent]
RECURSIVE ActionsValidate(_, _, _)
ActionsValidate(raws, i, events) ==
    IF i > Len(raws) THEN Return(events)
    ELSE LET event == BaseEventValidate(raws[i])
         IN  IF event.exc # "none" THEN event
             ELSE ActionsValidate(raws, i + 1, Append(events, event.val))

\* Game built from a payload: GameData.period is conint(ge=1), the actions
\* are validated one by one, and nothing relates one action to another
GameValidate(payload) ==
    IF payload.period < 1 THEN Raise("ValidationError")
    ELSE LET actions == ActionsValidate(payload.actions, 1, <<>>)
         IN  IF actions.exc # "none" THEN actions
             ELSE Return(MkGame(GameData("Q1", payload.period, DefaultMinutes,
                                         Team(10, 0, "0", 7, <<>>),
                                         Team(20, 0, "0", 7, <<>>)),
                                PlayByPlay(actions.val)))

\* payloads: minutes strings that are durations and that are not, counts
\* (made, attempted) in and out of range and in either order
StatMinutes ==
    {None,
     Some(<<"P", "T", "0", "5", "M", "3", "0", ".", "0", "0", "S">>),
     Some(<<"P", "T", "0", "0", "M", "0", "9", ".", "6", "0", "S">>),
     Some(<<"1", "2", ":", "3", "0">>),
     Some(<<>>)}
LeadingTimes == {None, Some(<<"P", "T", "0", "1", "M">>), Some(<<"x">>)}
FieldGoalPairs == {<<0, 0>>, <<1, 2>>, <<2, 1>>, <<-1, 0>>}
ThreePointerPairs == {<<0, 0>>, <<2, 1>>}
FreeThrowPairs == {<<1, 2>>, <<2, 1>>}

PlayerStatPayloads ==
    {[minutes |-> m,
      field_goals_made |-> fg[1], field_goals_attempted |-> fg[2],
      three_pointers_made |-> tp[1], three_pointers_attempted |-> tp[2],
      free_throws_made |-> ft[1], free_throws_attempted |-> ft[2]] :
        m \in StatMinutes, fg \in FieldGoalPairs,
        tp \in ThreePointerPairs, ft \in FreeThrowPairs}

TeamStatPayloads ==
    {[time_leading |-> l] @@ p : l \in LeadingTimes, p \in PlayerStatPayloads}

RawEvents ==
    {[action_type |-> T2pt, period |-> p] : p \in {None, Some(0), Some(1), Some(2)}}

GamePayloads ==
    {[period |-> p, actions |-> a] : p \in {0, 1}, a \in BoundedSeq(RawEvents, MaxEvents)}

InitBuild ==
    /\ game = NoGame
    /\ name_mapping = None
    /\ rebuild = None
    /\ db = None
    /\ call = Idle
    /\ ret = Return(None)

\* PlayerStatistics(**payload): the mode='before' validator runs first
CallPlayerStatistics ==
    /\ call = Idle
    /\ \E payload \in PlayerStatPayloads :
          /\ call' = [op |-> "PlayerStatistics", stage |-> "before", payload |-> payload]
          /\ ret' = CalculateSeconds(payload)
    /\ UNCHANGED <<game, others>>

\* TeamStatistics(**payload): the mode='before' validator runs first
CallTeamStatistics ==
    /\ call = Idle
    /\ \E payload \in TeamStatPayloads :
          /\ call' = [op |-> "TeamStatistics", stage |-> "before", payload |-> payload]
          /\ ret' = CalculateTimes(payload)
    /\ UNCHANGED <<game, others>>

\* the fields are validated from the data the validator returned
ValidateFields ==
    /\ call # Idle
    /\ call.stage = "before"
    /\ ret.exc = "none"
    /\ call' = [call EXCEPT !.stage = "fields"]
    /\ ret' = IF call.op = "PlayerStatistics" THEN PlayerStatisticsFields(ret.val)
              ELSE TeamStatisticsFields(ret.val)
    /\ UNCHANGED <<game, others>>

\* Game(**payload)
CallGame ==
    /\ call = Idle
    /\ \E payload \in GamePayloads :
          /\ call' = [op |-> "Game", stage |-> "fields", payload |-> payload]
          /\ ret' = GameValidate(payload)
    /\ UNCHANGED <<game, others>>

\* the caller takes the constructed record (or the validation error)
TakeConstructed ==
    /\ call # Idle
    /\ call.stage = "fields" \/ ret.exc # "none"
    /\ call' = Idle
    /\ ret' = Return(None)
    /\ UNCHANGED <<game, others>>

NextBuild ==
    \/ CallPlayerStatistics
    \/ CallTeamStatistics
    \/ ValidateFields
    \/ CallGame
    \/ TakeConstructed

SpecBuild == InitBuild /\ [][NextBuild]_vars

(***************************************************************************)
(* BaseEvent.filter_multi applied twice and applied once: the caller       *)
(* filters a list by a and the result by b, the list by both at once, and  *)
(* the list by b and the result by a.                                      *)
(***************************************************************************)
\* the predicates of one filter_multi call (clutch_minutes left at 2)
Predicates ==
    [team_id : {None, Some(10)}, player_id : {None, Some(1)},
     period : {None, Some(4)}, is_clutch : BOOLEAN]

\* filter_multi(events, **a)
FilterMultiBy(acts, events, a) ==
    FilterMulti(acts, events, a.team_id, a.player_id, a.period, a.is_clutch, 2)

\* filter_multi(filter_multi(events, **a), **b): an exception of the inner
\* call ends the expression
FilterMultiTwice(acts, a, b) ==
    LET inner == FilterMultiBy(acts, StoredList(acts), a)
    IN  IF inner.exc # "none" THEN inner ELSE FilterMultiBy(acts, inner.val, b)

\* the keyword arguments of a and b together
BothPredicates(a, b) ==
    [team_id |-> IF a.team_id # None THEN a.team_id ELSE b.team_id,
     player_id |-> IF a.player_id # None THEN a.player_id ELSE b.player_id,
     period |-> IF a.period # None THEN a.period ELSE b.period,
     is_clutch |-> a.is_clutch \/ b.is_clutch]

\* events of two teams, early and late, inside and outside the last two
\* minutes, and with a clock whose minute text is no number
MultiPool ==
    {Event(T2pt, pc[1], pc[2], Some(w[1]), Some(w[2]), None, None, NoAttrs) :
        pc \in {<<4, <<"1", ":", "3", "0">> >>, <<4, <<"5", ":", "0", "0">> >>,
                <<3, <<"1", ":", "3", "0">> >>, <<4, <<"x", ":", "3", "0">> >>},
        w \in {<<10, 1>>, <<20, 3>>}}

MultiGames ==
    {MkGame(DefaultGameData, PlayByPlay(acts)) : acts \in BoundedSeq(MultiPool, MaxEvents - 1)}

InitMulti ==
    /\ game \in MultiGames
    /\ name_mapping = None
    /\ rebuild = None
    /\ db = None
    /\ call = Idle
    /\ ret = Return(None)

CallFilterMultiComposed ==
    /\ call = Idle
    /\ \E a \in Predicates, b \in Predicates :
          /\ call' = [op |-> "filter_multi", a |-> a, b |-> b]
          /\ ret' = Return([a_then_b |-> FilterMultiTwice(Actions(game), a, b),
                            both |-> FilterMultiBy(Actions(game), StoredList(Actions(game)),
                                                   BothPredicates(a, b)),
                            b_then_a |-> FilterMultiTwice(Actions(game), b, a)])
    /\ UNCHANGED <<game, others>>

NextMulti ==
    \/ CallFilterMultiComposed
    \/ TakeResult

SpecMulti == InitMulti /\ [][NextMulti]_vars

(***************************************************************************)
(* The name index of src/nba/parser/player_parser.py: PlayerNameMapping    *)
(* and PlayerDataParser.parse_player_list.  A dict is a function from its  *)
(* keys; names and ids are str values, sequences of one-character strings. *)
(* A player carries person_id and name; last_name is derived from name.    *)
(***************************************************************************)
EmptyDict == [k \in {} |-> None]

\* d[k] = v
Put(d, k, v) == [x \in DOMAIN d \cup {k} |-> IF x = k THEN v ELSE d[x]]

\* d.get(k)
Get(d, k) == IF k \in DOMAIN d THEN Some(d[k]) ELSE None

\* name.split(): the maximal runs of non-blank characters
RECURSIVE Tokens(_)
Tokens(s) ==
    IF s = <<>> THEN <<>>
    ELSE IF s[1] = " " THEN Tokens(Tail(s))
    ELSE LET word == SplitHead(s, " ")
         IN  <<word>> \o Tokens(SubSeq(s, Len(word) + 1, Len(s)))

\* " ".join(tokens)
RECURSIVE Join(_)
Join(tokens) ==
    IF tokens = <<>> THEN <<>>
    ELSE IF Len(tokens) = 1 THEN tokens[1]
    ELSE tokens[1] \o <<" ">> \o Join(Tail(tokens))

\* PlayerBasicInfo.normalize_name: blanks collapsed and trimmed, case kept
NormalizeName(name) == Join(Tokens(name))

\* PlayerBasicInfo.last_name: the last word of the name
LastName(player) == Tokens(player.name)[Len(Tokens(player.name))]

\* PlayerNameMapping(): three empty dicts
EmptyMapping ==
    [name_to_id |-> EmptyDict, id_to_name |-> EmptyDict, normalized_name_to_id |-> EmptyDict]

\* the four dict writes of add_player, in the order of the code
SetNameToId(m, player) ==
    [m EXCEPT !.name_to_id = Put(@, NormalizeName(player.name), player.person_id)]

SetIdToName(m, player) ==
    [m EXCEPT !.id_to_name = Put(@, player.person_id, NormalizeName(player.name))]

SetNormalizedName(m, player) ==
    [m EXCEPT !.normalized_name_to_id =
                  Put(@, Lower(NormalizeName(player.name)), player.person_id)]

SetLastName(m, player) ==
    IF Lower(LastName(player)) \notin DOMAIN m.normalized_name_to_id
    THEN [m EXCEPT !.normalized_name_to_id = Put(@, Lower(LastName(player)), player.person_id)]
    ELSE m

\* add_player that keys the maps by the name as given
AddPlayerRawName(m, player) ==
    SetLastName(
        [m EXCEPT !.name_to_id = Put(@, player.name, player.person_id),
                  !.id_to_name = Put(@, player.person_id, player.name),
                  !.normalized_name_to_id = Put(@, Lower(player.name), player.person_id)],
        player)

AddPlayer(m, player) ==
    SetLastName(SetNormalizedName(SetIdToName(SetNameToId(m, player), player), player), player)

\* get_player_id, first lookup: self._name_to_id.get(normalized_name)
ExactLookup(m, name) == Get(m.name_to_id, NormalizeName(name))

\* get_player_id, second lookup: self._normalized_name_to_id.get(normalized_name.lower())
NormalizedLookup(m, name) == Get(m.normalized_name_to_id, Lower(NormalizeName(name)))

\* get_player_id without the case-folded lookup
GetPlayerIdExactOnly(m, name) == Return(ExactLookup(m, name))

GetPlayerId(m, name) ==
    IF Truthy(ExactLookup(m, name))
    THEN Return(ExactLookup(m, name))
    ELSE Return(NormalizedLookup(m, name))

\* get_player_name that indexes the dict: a miss is a KeyError
GetPlayerNameByIndex(m, player_id) ==
    IF player_id \in DOMAIN m.id_to_name
    THEN Return(Some(m.id_to_name[player_id]))
    ELSE Raise("KeyError")

GetPlayerName(m, player_id) == Return(Get(m.id_to_name, player_id))

\* the three dict.clear() calls of clear, in the order of the code
ClearNameToId(m) == [m EXCEPT !.name_to_id = EmptyDict]
ClearIdToName(m) == [m EXCEPT !.id_to_name = EmptyDict]
ClearNormalizedName(m) == [m EXCEPT !.normalized_name_to_id = EmptyDict]

\* clear that leaves the case-folded map alone
ClearTwoMaps(m) == ClearIdToName(ClearNameToId(m))

Clear(m) == ClearNormalizedName(ClearIdToName(ClearNameToId(m)))

\* A roster payload is None, or a dict that may hold 'resultSets': a list
\* of result sets, the first of which holds the rows.  A row is the dict
\* zip(headers, row) builds.
RowKeys == {"PERSON_ID", "PLAYER_FIRST_NAME", "PLAYER_LAST_NAME"}

\* `not data or 'resultSets' not in data`
NoResultSets(data) == data = None \/ "resultSets" \notin DOMAIN data

\* data['resultSets'][0]['rowSet'], reached before clear(): an IndexError
\* when the list of result sets is empty
RowSet(data) ==
    IF data.resultSets = <<>> THEN Raise("IndexError")
    ELSE Return(data.resultSets[1].rowSet)

\* PlayerBasicInfo(person_id=str(row['PERSON_ID']), name=f"{first} {last}", ...):
\* a row without one of the keys is a KeyError
PlayerOfRow(row) ==
    IF RowKeys \subseteq DOMAIN row
    THEN Return([person_id |-> Dec(row.PERSON_ID),
                 name |-> row.PLAYER_FIRST_NAME \o <<" ">> \o row.PLAYER_LAST_NAME])
    ELSE Raise("KeyError")

\* the loop of parse_player_list over rows[i..]; an exception ends it and
\* the players collected so far are returned
RECURSIVE ParseRows(_, _, _, _)
ParseRows(m, rows, i, players) ==
    IF i > Len(rows) THEN [mapping |-> m, players |-> players]
    ELSE IF PlayerOfRow(rows[i]).exc # "none" THEN [mapping |-> m, players |-> players]
    ELSE ParseRows(AddPlayer(m, PlayerOfRow(rows[i]).val), rows, i + 1,
                   Append(players, PlayerOfRow(rows[i]).val))

\* parse_player_list: the index it leaves and the players it returns
ParsePlayerList(m, data) ==
    IF NoResultSets(data) THEN [mapping |-> m, players |-> <<>>]
    ELSE IF RowSet(data).exc # "none" THEN [mapping |-> m, players |-> <<>>]
    ELSE ParseRows(Clear(m), RowSet(data).val, 1, <<>>)

\* Longest row set of a roster payload of the model.
MaxRows == 2

FirstNames == {<<"A", "l">>, <<"a", "l">>, <<>>}
LastNames == {<<"B", "o">>}
PersonIds == {7, 9}

Rows ==
    {[PERSON_ID |-> i, PLAYER_FIRST_NAME |-> f, PLAYER_LAST_NAME |-> l] :
        i \in PersonIds, f \in FirstNames, l \in LastNames}
    \cup {[PLAYER_FIRST_NAME |-> <<"A", "l">>, PLAYER_LAST_NAME |-> <<"B", "o">>]}

RosterPayloads ==
    {None, [message |-> "error"], [resultSets |-> <<>>]}
    \cup {[resultSets |-> <<[rowSet |-> rows]>>] : rows \in BoundedSeq(Rows, MaxRows)}

\* the players add_player is called with
Players == {PlayerOfRow(row).val : row \in {r \in Rows : RowKeys \subseteq DOMAIN r}}

\* the names and ids the lookups are called with
LookupNames ==
    {<<"A", "l", " ", "B", "o">>, <<"a", "l", " ", " ", "B", "o">>,
     <<"A", "L", " ", "B", "O">>, <<"B", "o">>, <<"b", "o">>, <<"Z", "e", "d">>}
LookupIds == {Dec(7), Dec(9), Dec(5)}

InitIndex ==
    /\ name_mapping = EmptyMapping
    /\ call = Idle
    /\ ret = Return(None)
    /\ game = None
    /\ rebuild = None
    /\ db = None

CallAddPlayer ==
    /\ call = Idle
    /\ \E player \in Players :
          /\ call' = [op |-> "add_player", player |-> player]
          /\ name_mapping' = AddPlayer(name_mapping, player)
    /\ ret' = Return(None)
    /\ UNCHANGED <<game, rebuild, db>>

CallGetPlayerId ==
    /\ call = Idle
    /\ \E name \in LookupNames :
          /\ call' = [op |-> "get_player_id", name |-> name]
          /\ ret' = GetPlayerId(name_mapping, name)
    /\ UNCHANGED <<game, others>>

CallGetPlayerName ==
    /\ call = Idle
    /\ \E player_id \in LookupIds :
          /\ call' = [op |-> "get_player_name", player_id |-> player_id]
          /\ ret' = GetPlayerName(name_mapping, player_id)
    /\ UNCHANGED <<game, others>>

CallClear ==
    /\ call = Idle
    /\ call' = [op |-> "clear"]
    /\ name_mapping' = Clear(name_mapping)
    /\ ret' = Return(None)
    /\ UNCHANGED <<game, rebuild, db>>

CallParsePlayerList ==
    /\ call = Idle
    /\ \E data \in RosterPayloads :
          /\ call' = [op |-> "parse_player_list", data |-> data]
          /\ name_mapping' = ParsePlayerList(name_mapping, data).mapping
          /\ ret' = Return(ParsePlayerList(name_mapping, data).players)
    /\ UNCHANGED <<game, rebuild, db>>

NextIndex ==
    \/ CallAddPlayer
    \/ CallGetPlayerId
    \/ CallGetPlayerName
    \/ CallClear
    \/ CallParsePlayerList
    \/ TakeResult

SpecIndex == InitIndex /\ [][NextIndex]_vars

(***************************************************************************)
(* A rebuild of the index interleaved with a reader.  The single writer    *)
(* runs parse_player_list statement by statement; every dict operation     *)
(* (get, item assignment, clear) is atomic, as it is under the interpreter *)
(* lock, and the reader's get_player_id is two such operations.  `rebuild` *)
(* is the writer's frame: its position, its payload, the rows and the      *)
(* player in hand, and the index as it stood when the call began.          *)
(***************************************************************************)
RebuildAt(pc) == [rebuild EXCEPT !.pc = pc]

\* the indexes an earlier, completed ingestion can have left
PriorIndexes ==
    {ParsePlayerList(EmptyMapping, [resultSets |-> <<[rowSet |-> rows]>>]).mapping :
        rows \in BoundedSeq(Rows, 1)}

\* the names and ids the concurrent reader looks up
ReaderNames == {<<"A", "l", " ", "B", "o">>, <<"b", "o">>, <<"Z", "e", "d">>}
ReaderIds == {Dec(7), Dec(5)}

InitRebuild ==
    /\ name_mapping \in PriorIndexes
    /\ \E data \in RosterPayloads :
          rebuild = [pc |-> "start", data |-> data, before |-> name_mapping,
                     rows |-> <<>>, i |-> 1, player |-> None]
    /\ call = Idle
    /\ ret = Return(None)
    /\ game = None
    /\ db = None

\* lines 77-83: the guard and the row set, both before clear()
RebuildGuard ==
    /\ rebuild.pc = "start"
    /\ rebuild' = IF NoResultSets(rebuild.data) THEN RebuildAt("done")
                  ELSE IF RowSet(rebuild.data).exc # "none" THEN RebuildAt("done")
                  ELSE [rebuild EXCEPT !.pc = "clear_name_to_id",
                                       !.rows = RowSet(rebuild.data).val]
    /\ UNCHANGED <<game, call, ret, name_mapping, db>>

RebuildClearNameToId ==
    /\ rebuild.pc = "clear_name_to_id"
    /\ name_mapping' = ClearNameToId(name_mapping)
    /\ rebuild' = RebuildAt("clear_id_to_name")
    /\ UNCHANGED <<game, call, ret, db>>

RebuildClearIdToName ==
    /\ rebuild.pc = "clear_id_to_name"
    /\ name_mapping' = ClearIdToName(name_mapping)
    /\ rebuild' = RebuildAt("clear_normalized_name")
    /\ UNCHANGED <<game, call, ret, db>>

RebuildClearNormalizedName ==
    /\ rebuild.pc = "clear_normalized_name"
    /\ name_mapping' = ClearNormalizedName(name_mapping)
    /\ rebuild' = RebuildAt("row")
    /\ UNCHANGED <<game, call, ret, db>>

\* the head of the loop: the next row becomes a player, or the loop ends
RebuildNextRow ==
    /\ rebuild.pc = "row"
    /\ rebuild' = IF rebuild.i > Len(rebuild.rows) THEN RebuildAt("done")
                  ELSE IF PlayerOfRow(rebuild.rows[rebuild.i]).exc # "none"
                  THEN RebuildAt("done")
                  ELSE [rebuild EXCEPT !.pc = "set_name_to_id",
                                       !.player = PlayerOfRow(rebuild.rows[rebuild.i]).val]
    /\ UNCHANGED <<game, call, ret, name_mapping, db>>

RebuildSetNameToId ==
    /\ rebuild.pc = "set_name_to_id"
    /\ name_mapping' = SetNameToId(name_mapping, rebuild.player)
    /\ rebuild' = RebuildAt("set_id_to_name")
    /\ UNCHANGED <<game, call, ret, db>>

RebuildSetIdToName ==
    /\ rebuild.pc = "set_id_to_name"
    /\ name_mapping' = SetIdToName(name_mapping, rebuild.player)
    /\ rebuild' = RebuildAt("set_normalized_name")
    /\ UNCHANGED <<game, call, ret, db>>

RebuildSetNormalizedName ==
    /\ rebuild.pc = "set_normalized_name"
    /\ name_mapping' = SetNormalizedName(name_mapping, rebuild.player)
    /\ rebuild' = RebuildAt("set_last_name")
    /\ UNCHANGED <<game, call, ret, db>>

\* the guarded last-name write, then players.append and the next iteration
RebuildSetLastName ==
    /\ rebuild.pc = "set_last_name"
    /\ name_mapping' = SetLastName(name_mapping, rebuild.player)
    /\ rebuild' = [rebuild EXCEPT !.pc = "row", !.i = @ + 1, !.player = None]
    /\ UNCHANGED <<game, call, ret, db>>

\* the reader's get_player_name: one dict.get
ReaderGetPlayerName ==
    /\ call = Idle
    /\ \E player_id \in ReaderIds :
          /\ call' = [op |-> "get_player_name", key |-> player_id, stage |-> "returned"]
          /\ ret' = GetPlayerName(name_mapping, player_id)
    /\ UNCHANGED <<game, others>>

\* the reader's get_player_id, lines 40-43: the exact lookup returns a hit
ReaderExactLookup ==
    /\ call = Idle
    /\ \E name \in ReaderNames :
          IF Truthy(ExactLookup(name_mapping, name))
          THEN /\ call' = [op |-> "get_player_id", key |-> name, stage |-> "returned"]
               /\ ret' = Return(ExactLookup(name_mapping, name))
          ELSE /\ call' = [op |-> "get_player_id", key |-> name, stage |-> "normalized"]
               /\ ret' = ret
    /\ UNCHANGED <<game, others>>

\* the reader's get_player_id, line 45: the case-folded lookup, some time later
ReaderNormalizedLookup ==
    /\ call.op = "get_player_id"
    /\ call.stage = "normalized"
    /\ call' = [call EXCEPT !.stage = "returned"]
    /\ ret' = Return(NormalizedLookup(name_mapping, call.key))
    /\ UNCHANGED <<game, others>>

ReaderTakeResult ==
    /\ call # Idle
    /\ call.stage = "returned"
    /\ call' = Idle
    /\ ret' = Return(None)
    /\ UNCHANGED <<game, others>>

NextRebuild ==
    \/ RebuildGuard
    \/ RebuildClearNameToId
    \/ RebuildClearIdToName
    \/ RebuildClearNormalizedName
    \/ RebuildNextRow
    \/ RebuildSetNameToId
    \/ RebuildSetIdToName
    \/ RebuildSetNormalizedName
    \/ RebuildSetLastName
    \/ ReaderGetPlayerName
    \/ ReaderExactLookup
    \/ ReaderNormalizedLookup
    \/ ReaderTakeResult

SpecRebuild == InitRebuild /\ [][NextRebuild]_vars

(***************************************************************************)
(* BoxscoreSync of src/nba/database/game_stats/statistics_sync.py.         *)
(* db_manager.conn is a sqlite3 connection in its default mode: a write    *)
(* opens a transaction, the connection reads its own pending writes,       *)
(* commit() makes them durable and rollback() drops them.  `db` holds the  *)
(* tables as the connection sees them (conn), the durable tables           *)
(* (committed) and the clock datetime.now() reads.  A table is the         *)
(* sequence of its rows.  While sync_boxscore runs, `call` is its frame.   *)
(***************************************************************************)
EmptyTables == [statistics |-> <<>>, history |-> <<>>]

EmptyDatabase == [conn |-> EmptyTables, committed |-> EmptyTables, clock |-> 0]

\* conn.commit()
Commit(d) == [d EXCEPT !.committed = d.conn]

\* conn.rollback() that leaves the pending writes in place
RollbackKeepsPending(d) == d

\* conn.rollback()
Rollback(d) == [d EXCEPT !.conn = d.committed]

\* boxscore_data.get('boxScoreTraditional', {})
BoxData(data) == IF "boxScoreTraditional" \in DOMAIN data THEN data.boxScoreTraditional ELSE None

\* _extract_game_info: {} when there is no box score
ExtractGameInfo(data) ==
    IF BoxData(data) = None THEN None
    ELSE [home_team_id |-> BoxData(data).homeTeamId, away_team_id |-> BoxData(data).awayTeamId]

\* the loop over one team's players: player.get(...) of an entry that is
\* no dict is an AttributeError
RECURSIVE TeamPlayerStats(_, _)
TeamPlayerStats(players, team_id) ==
    IF players = <<>> THEN Return(<<>>)
    ELSE IF players[1] = None THEN Raise("AttributeError")
    ELSE IF TeamPlayerStats(Tail(players), team_id).exc # "none" THEN Raise("AttributeError")
    ELSE Return(<<[person_id |-> players[1].personId, team_id |-> team_id,
                   points |-> players[1].statistics.points]>>
                \o TeamPlayerStats(Tail(players), team_id).val)

\* _extract_player_stats: home players then away players; [] on any error
ExtractPlayerStats(data) ==
    LET box == BoxData(data)
        home == TeamPlayerStats(box.homeTeam.players, box.homeTeamId)
        away == TeamPlayerStats(box.awayTeam.players, box.awayTeamId)
    IN  IF box = None THEN <<>>
        ELSE IF home.exc # "none" \/ away.exc # "none" THEN <<>>
        ELSE home.val \o away.val

\* player_stat.update({...}): the game's columns and last_updated_at
MergeGameInfo(player_stat, game_id, game_info, now) ==
    [game_id |-> game_id, person_id |-> player_stat.person_id,
     team_id |-> player_stat.team_id, points |-> player_stat.points,
     home_team_id |-> game_info.home_team_id, away_team_id |-> game_info.away_team_id,
     last_updated_at |-> now]

\* WHERE game_id = ? AND person_id = ?
SameKey(row, player_stat) ==
    row.game_id = player_stat.game_id /\ row.person_id = player_stat.person_id

\* _save_or_update_player_boxscore that always inserts
SaveAlwaysInserts(statistics, player_stat) == Append(statistics, player_stat)

\* _save_or_update_player_boxscore: UPDATE the rows of the key when the
\* SELECT finds one, INSERT otherwise
SaveOrUpdatePlayerBoxscore(statistics, player_stat) ==
    IF \E k \in DOMAIN statistics : SameKey(statistics[k], player_stat)
    THEN [k \in DOMAIN statistics |->
             IF SameKey(statistics[k], player_stat) THEN player_stat ELSE statistics[k]]
    ELSE Append(statistics, player_stat)

\* _record_sync_history: INSERT and commit; a failure is logged, not raised
RecordSyncHistory(d, game_id, status, items_processed, fails) ==
    IF fails THEN d
    ELSE Commit([d EXCEPT !.conn.history =
                    Append(@, [game_id |-> game_id, status |-> status,
                               items_succeeded |-> IF status = "success"
                                                   THEN items_processed ELSE 0])])

\* Most sync_boxscore calls of a run.
MaxSyncs == 2

GameIds == {"0022300001", "0022300002"}

PlayerEntry(p, v) == [personId |-> p, statistics |-> [points |-> v]]

\* homeTeam.players: no player, one, two, the same player twice, and a list
\* with an entry that is no dict
HomePlayers ==
    {<<>>,
     <<PlayerEntry(1, 0)>>,
     <<PlayerEntry(1, 5)>>,
     <<PlayerEntry(1, 0), PlayerEntry(2, 0)>>,
     <<PlayerEntry(2, 0), PlayerEntry(1, 5)>>,
     <<PlayerEntry(1, 0), PlayerEntry(1, 5)>>,
     <<PlayerEntry(1, 0), None>>}
AwayPlayers == {<<>>, <<PlayerEntry(3, 0)>>}

BoxscorePayloads ==
    {[meta |-> [videoAvailable |-> 0]]}
    \cup {[boxScoreTraditional |->
              [homeTeamId |-> 10, awayTeamId |-> 20,
               homeTeam |-> [players |-> hs], awayTeam |-> [players |-> as]]] :
             hs \in HomePlayers, as \in AwayPlayers}

\* what game_fetcher.get_boxscore_traditional hands back: a payload, nothing,
\* or an exception
FetchOutcomes ==
    {Raise("Exception"), Return(None)} \cup {Return(data) : data \in BoxscorePayloads}

InitSync ==
    /\ db = EmptyDatabase
    /\ call = Idle
    /\ ret = Return(None)
    /\ game = None
    /\ name_mapping = None
    /\ rebuild = None

At(pc) == [call EXCEPT !.pc = pc]

\* lines 34-41: the fetch; no data is a ValueError
CallSyncBoxscore ==
    /\ call = Idle
    /\ db.clock < MaxSyncs
    /\ \E game_id \in GameIds, fetched \in FetchOutcomes :
          call' = [op |-> "sync_boxscore", game_id |-> game_id, data |-> fetched.val,
                   pc |-> IF fetched.exc = "none" /\ fetched.val # None
                          THEN "save" ELSE "except",
                   player_stats |-> <<>>, i |-> 1, success_count |-> 0,
                   status |-> "", inserts |-> <<>>,
                   before |-> db.committed.statistics]
    /\ db' = [db EXCEPT !.clock = @ + 1]
    /\ UNCHANGED <<game, ret, name_mapping, rebuild>>

\* _save_boxscore_data, lines 111-133: game info (none is a ValueError,
\* rolled back and re-raised) and the player stats
SyncExtract ==
    /\ call.op = "sync_boxscore"
    /\ call.pc = "save"
    /\ IF ExtractGameInfo(call.data) = None
       THEN /\ db' = Rollback(db)
            /\ call' = At("except")
       ELSE /\ db' = db
            /\ call' = [call EXCEPT
                           !.pc = "save_row",
                           !.player_stats =
                               [k \in DOMAIN ExtractPlayerStats(call.data) |->
                                   MergeGameInfo(ExtractPlayerStats(call.data)[k], call.game_id,
                                                 ExtractGameInfo(call.data), db.clock)]]
    /\ UNCHANGED <<game, ret, name_mapping, rebuild>>

\* one iteration of the loop, lines 135-155; a statement the database
\* refuses raises, and the except clause rolls back and re-raises
SyncSaveRow ==
    /\ call.op = "sync_boxscore"
    /\ call.pc = "save_row"
    /\ call.i <= Len(call.player_stats)
    /\ \E fails \in BOOLEAN :
          IF fails
          THEN /\ db' = Rollback(db)
               /\ call' = At("except")
          ELSE /\ db' = [db EXCEPT !.conn.statistics =
                            SaveOrUpdatePlayerBoxscore(@, call.player_stats[call.i])]
               /\ call' = [call EXCEPT !.i = @ + 1, !.success_count = @ + 1]
    /\ UNCHANGED <<game, ret, name_mapping, rebuild>>

\* line 159 and lines 46-47: commit after the loop, then the status
SyncCommit ==
    /\ call.op = "sync_boxscore"
    /\ call.pc = "save_row"
    /\ call.i > Len(call.player_stats)
    /\ db' = Commit(db)
    /\ call' = [call EXCEPT !.pc = "record",
                            !.status = IF call.success_count > 0 THEN "success" ELSE "failed"]
    /\ UNCHANGED <<game, ret, name_mapping, rebuild>>

\* line 50 with a _record_sync_history whose failure reaches sync_boxscore
SyncRecordHistoryUncaught ==
    /\ call.op = "sync_boxscore"
    /\ call.pc = "record"
    /\ \E fails \in BOOLEAN :
          /\ db' = RecordSyncHistory(db, call.game_id, call.status, call.success_count, fails)
          /\ call' = [call EXCEPT !.pc = IF fails THEN "except" ELSE "returned",
                                  !.inserts = Append(@, [status |-> call.status,
                                                         failed |-> fails])]
          /\ ret' = IF fails THEN ret
                    ELSE Return([status |-> call.status, items_succeeded |-> call.success_count])
    /\ UNCHANGED <<game, name_mapping, rebuild>>

\* lines 50-60: the history row of the normal path, then the result
SyncRecordHistory ==
    /\ call.op = "sync_boxscore"
    /\ call.pc = "record"
    /\ \E fails \in BOOLEAN :
          /\ db' = RecordSyncHistory(db, call.game_id, call.status, call.success_count, fails)
          /\ call' = [call EXCEPT !.pc = "returned",
                                  !.inserts = Append(@, [status |-> call.status,
                                                         failed |-> fails])]
    /\ ret' = Return([status |-> call.status, items_succeeded |-> call.success_count])
    /\ UNCHANGED <<game, name_mapping, rebuild>>

\* lines 62-74: the except clause records "failed" and returns the failure
SyncExcept ==
    /\ call.op = "sync_boxscore"
    /\ call.pc = "except"
    /\ \E fails \in BOOLEAN :
          /\ db' = RecordSyncHistory(db, call.game_id, "failed", 0, fails)
          /\ call' = [call EXCEPT !.pc = "returned",
                                  !.inserts = Append(@, [status |-> "failed",
                                                         failed |-> fails])]
    /\ ret' = Return([status |-> "failed", items_succeeded |-> 0])
    /\ UNCHANGED <<game, name_mapping, rebuild>>

SyncTakeResult ==
    /\ call.op = "sync_boxscore"
    /\ call.pc = "returned"
    /\ call' = Idle
    /\ ret' = Return(None)
    /\ UNCHANGED <<game, others>>

NextSync ==
    \/ CallSyncBoxscore
    \/ SyncExtract
    \/ SyncSaveRow
    \/ SyncCommit
    \/ SyncRecordHistory
    \/ SyncExcept
    \/ SyncTakeResult

SpecSync == InitSync /\ [][NextSync]_vars

(***************************************************************************)
(* Properties                                                              *)
(***************************************************************************)
\* the stored play-by-play events of the game (none without play-by-play)
Stored == IF HasPlayByPlay(game) THEN Actions(game) ELSE <<>>

Range(f) == {f[k] : k \in DOMAIN f}

\* an event passes the period, team and player predicates a call supplies
PassesSupplied(e, c) ==
    /\ c.period # None => e.period = c.period[1]
    /\ c.team_id # None => e.team_id # None /\ e.team_id[1] = c.team_id[1]
    /\ c.player_id # None => e.person_id # None /\ e.person_id[1] = c.player_id[1]

\* C1: filter_events returns exactly the stored events that satisfy every
\* supplied predicate at once: no returned event fails a supplied period,
\* team or player predicate, a predicate left as None restricts nothing,
\* and every stored event that passes (and, when a non-empty action_types
\* is given, whose action_type is in it) is returned.
C1_FilterEventsConjunctive ==
    call.op = "filter_events" =>
        /\ ret.exc = "none"
        /\ Range(ret.val.items) \subseteq DOMAIN Stored
        /\ \A i \in Range(ret.val.items) : PassesSupplied(Stored[i], call)
        /\ call.action_types = None =>
              \A i \in DOMAIN Stored :
                  PassesSupplied(Stored[i], call) => i \in Range(ret.val.items)
        /\ (call.action_types # None /\ call.action_types[1] # {}) =>
              \A i \in DOMAIN Stored :
                  i \in Range(ret.val.items)
                      <=> /\ PassesSupplied(Stored[i], call)
                          /\ Stored[i].action_type \in call.action_types[1]

\* C1 witness: a call with all three predicates supplied that returns an
\* event and leaves a stored event out
C1_Witness ==
    /\ call.op = "filter_events"
    /\ call.period # None /\ call.team_id # None /\ call.player_id # None
    /\ call.action_types = None
    /\ ret.exc = "none"
    /\ Len(ret.val.items) >= 1
    /\ Len(ret.val.items) < Len(Stored)

\* C2: the result of filter_events is a subsequence of the stored events in
\* their original order (references strictly increasing: none duplicated,
\* none reordered); with no predicate it is the full stored sequence, and
\* when no stored event passes the predicates it is empty.
C2_FilterEventsSubsequence ==
    call.op = "filter_events" =>
        /\ ret.exc = "none"
        /\ Range(ret.val.items) \subseteq DOMAIN Stored
        /\ \A j, k \in DOMAIN ret.val.items : j < k => ret.val.items[j] < ret.val.items[k]
        /\ (call.period = None /\ call.team_id = None /\ call.player_id = None
               /\ call.action_types = None)
              => ret.val.items = [i \in DOMAIN Stored |-> i]
        /\ (\A i \in DOMAIN Stored : ~PassesSupplied(Stored[i], call))
              => ret.val.items = <<>>

\* C2 witness: a call with a predicate returns the first and the third of
\* three stored events, in that order
C2_Witness ==
    /\ call.op = "filter_events"
    /\ call.period # None
    /\ ret.exc = "none"
    /\ Len(Stored) = 3
    /\ ret.val.items = <<1, 3>>

Indices(seq) == [i \in DOMAIN seq |-> i]

IsShot(e) == e.action_type = <<"2", "p", "t">> \/ e.action_type = <<"3", "p", "t">>

\* an event that carries an assist reference also carries a shot result,
\* as every ShotEvent does
AssistHasResult(e) == HasAttr(e, "assist_person_id") => HasAttr(e, "shot_result")

\* the stored events get_assisted_shot_data(passer_id) is to report
MadeAssists(passer_id) ==
    SelectSeq(Indices(Stored),
              LAMBDA i : /\ IsShot(Stored[i])
                         /\ HasAttr(Stored[i], "assist_person_id")
                         /\ Stored[i].extra.assist_person_id = <<passer_id>>
                         /\ HasAttr(Stored[i], "shot_result")
                         /\ Stored[i].extra.shot_result = <<"Made">>)

\* C3: get_assisted_shot_data(passer_id) returns one record, in event order,
\* for exactly the stored 2pt/3pt events whose assist_person_id is passer_id
\* and whose shot_result is Made; a Missed shot assisted by passer_id is not
\* in the result.  (Over events whose assist reference comes with a shot
\* result the call always returns; it raises only on an event that has the
\* assist reference of passer_id and no shot_result attribute.)
C3_AssistedShotsAreMade ==
    call.op = "get_assisted_shot_data" =>
        /\ (\A i \in DOMAIN Stored : AssistHasResult(Stored[i])) => ret.exc = "none"
        /\ ret.exc # "none" =>
              \E i \in DOMAIN Stored :
                  /\ ~AssistHasResult(Stored[i])
                  /\ Stored[i].extra.assist_person_id = <<call.passer_id>>
        /\ ret.exc = "none" =>
              LET want == MadeAssists(call.passer_id)
              IN  /\ Len(ret.val) = Len(want)
                  /\ \A k \in DOMAIN want :
                        /\ ret.val[k].shot_type = Stored[want[k]].action_type
                        /\ ret.val[k].shooter_id = Stored[want[k]].person_id
                        /\ ret.val[k].team_id = Stored[want[k]].team_id
                        /\ ret.val[k].period = Stored[want[k]].period
                        /\ ret.val[k].time = Stored[want[k]].clock
                        /\ Stored[want[k]].extra.shot_result # <<"Missed">>

\* C3 witness: the passer assisted a made and a missed shot, and only the
\* made one is reported
C3_Witness ==
    /\ call.op = "get_assisted_shot_data"
    /\ ret.exc = "none"
    /\ \E i, j \in DOMAIN Stored :
          /\ IsShot(Stored[i]) /\ IsShot(Stored[j])
          /\ HasAttr(Stored[i], "shot_result") /\ HasAttr(Stored[j], "shot_result")
          /\ Stored[i].extra.assist_person_id = <<call.passer_id>>
          /\ Stored[j].extra.assist_person_id = <<call.passer_id>>
          /\ Stored[i].extra.shot_result = <<"Made">>
          /\ Stored[j].extra.shot_result = <<"Missed">>
    /\ Len(ret.val) = 1

\* the event carries a non-null assist reference
CarriesAssist(e) == HasAttr(e, "assist_person_id") /\ e.extra.assist_person_id # <<>>

\* the stored events get_shot_data(player_id) is to report
ShotsOf(player_id) ==
    SelectSeq(Indices(Stored),
              LAMBDA i : /\ IsShot(Stored[i])
                         /\ player_id # None =>
                               /\ Stored[i].person_id # None
                               /\ Stored[i].person_id[1] = player_id[1])

\* C7: get_shot_data(player_id) holds exactly one record per stored 2pt/3pt
\* event (of that player when player_id is given), in stored order, none
\* for another event type, and a record's assisted flag is true exactly
\* when its event carries a non-null assist reference.
C7_ShotDataPerShotEvent ==
    call.op = "get_shot_data" =>
        /\ ret.exc = "none"
        /\ LET want == ShotsOf(call.player_id)
           IN  /\ Len(ret.val) = Len(want)
               /\ \A k \in DOMAIN want :
                     /\ ret.val[k].action_type = Stored[want[k]].action_type
                     /\ ret.val[k].player_id = Stored[want[k]].person_id
                     /\ ret.val[k].team_id = Stored[want[k]].team_id
                     /\ ret.val[k].period = Stored[want[k]].period
                     /\ ret.val[k].time = Stored[want[k]].clock
                     /\ ret.val[k].assisted <=> CarriesAssist(Stored[want[k]])

\* C7 witness: a player's shots are reported, one assisted and one not,
\* and another stored event is not
C7_Witness ==
    /\ call.op = "get_shot_data"
    /\ call.player_id # None
    /\ ret.exc = "none"
    /\ Len(ret.val) = 2
    /\ Len(Stored) = 3
    /\ ret.val[1].assisted # ret.val[2].assisted

\* the team get_team_shot_data(team_id) is about, None when neither matches
TargetTeam(team_id) ==
    IF game.game_data.home_team.team_id = team_id THEN <<game.game_data.home_team>>
    ELSE IF game.game_data.away_team.team_id = team_id THEN <<game.game_data.away_team>>
    ELSE <<>>

\* C8: every key of get_team_shot_data(team_id) is the person id of a
\* roster entry of the matching team flagged as played, the value under a
\* key is get_shot_data of that person id, no roster entry not flagged as
\* played is a key, and a team_id matching neither team gives the empty
\* mapping; the call never raises.
C8_TeamShotDataOfPlayed ==
    call.op = "get_team_shot_data" =>
        /\ ret.exc = "none"
        /\ LET team == TargetTeam(call.team_id)
           IN  IF team = <<>> THEN DOMAIN ret.val = {}
               ELSE /\ \A key \in DOMAIN ret.val :
                          /\ \E k \in DOMAIN team[1].players :
                                /\ team[1].players[k].person_id = key
                                /\ team[1].players[k].played = "1"
                          /\ ret.val[key] = GetShotData(game, <<key>>).val
                    /\ \A k \in DOMAIN team[1].players :
                          team[1].players[k].played # "1"
                              => team[1].players[k].person_id \notin DOMAIN ret.val

\* C8 witness: the team has a player who played and took shots, who is a
\* key, and one who took shots without being flagged as played, who is not
C8_Witness ==
    /\ call.op = "get_team_shot_data"
    /\ ret.exc = "none"
    /\ DOMAIN ret.val # {}
    /\ \E k \in DOMAIN TargetTeam(call.team_id)[1].players :
          LET p == TargetTeam(call.team_id)[1].players[k]
          IN  /\ p.played = "0"
              /\ GetShotData(game, <<p.person_id>>).val # <<>>
              /\ p.person_id \notin DOMAIN ret.val

Rosters == game.game_data.home_team.players \o game.game_data.away_team.players

\* C9: get_team_stats(team_id) returns the home team for the home team's
\* id, the away team for the away team's id and None otherwise;
\* get_player_stats(player_id) returns a roster entry with that person id
\* when either roster has one and None otherwise; neither raises.
C9_TeamAndPlayerLookup ==
    /\ call.op = "get_team_stats" =>
          /\ ret.exc = "none"
          /\ call.team_id = game.game_data.home_team.team_id
                => ret.val = <<game.game_data.home_team>>
          /\ call.team_id = game.game_data.away_team.team_id
                => ret.val = <<game.game_data.away_team>>
          /\ (call.team_id # game.game_data.home_team.team_id
                 /\ call.team_id # game.game_data.away_team.team_id)
                => ret.val = <<>>
    /\ call.op = "get_player_stats" =>
          /\ ret.exc = "none"
          /\ IF \E k \in DOMAIN Rosters : Rosters[k].person_id = call.player_id
             THEN /\ ret.val # <<>>
                  /\ ret.val[1].person_id = call.player_id
                  /\ \E k \in DOMAIN Rosters : Rosters[k] = ret.val[1]
             ELSE ret.val = <<>>

\* C9 witness: a player of the away roster is looked up and found
C9_Witness ==
    /\ call.op = "get_player_stats"
    /\ ret.exc = "none"
    /\ ret.val # <<>>
    /\ \E k \in DOMAIN game.game_data.away_team.players :
          game.game_data.away_team.players[k] = ret.val[1]
    /\ \A k \in DOMAIN game.game_data.home_team.players :
          game.game_data.home_team.players[k].person_id # call.player_id

\* C10: get_game_status reproduces the values the game was built from:
\* the two scores, the period, each team's remaining timeouts, and bonus
\* flags that are true exactly when the team's in_bonus flag is "1".
C10_GameStatusReproducesPayload ==
    call.op = "get_game_status" =>
        /\ ret.exc = "none"
        /\ ret.val.home_score = game.game_data.home_team.score
        /\ ret.val.away_score = game.game_data.away_team.score
        /\ ret.val.current_period = game.game_data.period
        /\ ret.val.home_timeouts = game.game_data.home_team.timeouts_remaining
        /\ ret.val.away_timeouts = game.game_data.away_team.timeouts_remaining
        /\ ret.val.home_bonus <=> game.game_data.home_team.in_bonus = "1"
        /\ ret.val.away_bonus <=> game.game_data.away_team.in_bonus = "1"

\* C10 witness: a status read of a game whose teams differ in score,
\* timeouts and bonus
C10_Witness ==
    /\ call.op = "get_game_status"
    /\ ret.exc = "none"
    /\ ret.val.home_score = 98 /\ ret.val.away_score = 101
    /\ ret.val.home_timeouts = 5 /\ ret.val.away_timeouts = 2
    /\ ret.val.home_bonus /\ ~ret.val.away_bonus
    /\ ret.val.current_period = 4

\* the text before the colon of a clock is a number (or there is no colon)
NumericClock(e) == Contains(e.clock, ":") => PyInt(SplitHead(e.clock, ":")).exc = "none"

\* a score field is absent, empty or a number
NumericScore(score) == score = <<>> \/ score[1] = <<>> \/ PyInt(score[1]).exc = "none"

TypePoints(e) ==
    IF Lower(e.action_type) \in {<<"2", "p", "t">>, <<"3", "p", "t">>, <<"d", "u", "n", "k">>,
                                 <<"b", "l", "o", "c", "k">>, <<"s", "t", "e", "a", "l">>}
    THEN 3
    ELSE IF Lower(e.action_type) \in {<<"r", "e", "b", "o", "u", "n", "d">>,
                                      <<"a", "s", "s", "i", "s", "t">>, <<"f", "o", "u", "l">>}
         THEN 2
         ELSE 0

ClutchPoint(e) ==
    IF /\ e.period >= 4
       /\ Contains(e.clock, ":")
       /\ PyInt(SplitHead(e.clock, ":")).val <= 2
    THEN 1 ELSE 0

ScorePoint(e) ==
    IF /\ e.score_home # <<>> /\ e.score_away # <<>>
       /\ e.score_home[1] # <<>> /\ e.score_away[1] # <<>>
       /\ Abs(PyInt(e.score_home[1]).val - PyInt(e.score_away[1]).val) <= 5
    THEN 1 ELSE 0

\* C4: calculate_importance of an event is min(5, T + C + S): T is 3 or 2
\* by the lower-cased action type, C is 1 for period >= 4 with a clock
\* minute <= 2, S is 1 for two present scores at most 5 apart; a 3pt at
\* period 4, clock "1:30", margin 3 scores 5.  (Stated over events whose
\* clock minute text and score fields are numbers, absent or empty.)
C4_ImportanceFormula ==
    (call.op = "calculate_importance"
        /\ NumericClock(Stored[call.index])
        /\ NumericScore(Stored[call.index].score_home)
        /\ NumericScore(Stored[call.index].score_away)) =>
        LET e == Stored[call.index]
        IN  /\ ret.exc = "none"
            /\ ret.val = Min(5, TypePoints(e) + ClutchPoint(e) + ScorePoint(e))
            /\ (/\ e.action_type = <<"3", "p", "t">>
                /\ e.period = 4
                /\ e.clock = <<"1", ":", "3", "0">>
                /\ e.score_home = << <<"1", "0", "0">> >>
                /\ e.score_away = << <<"9", "7">> >>) => ret.val = 5

\* C4 witness: the 3pt event at period 4, clock "1:30", margin 3 was scored
C4_Witness ==
    /\ call.op = "calculate_importance"
    /\ Stored[call.index].action_type = <<"3", "p", "t">>
    /\ Stored[call.index].period = 4
    /\ Stored[call.index].clock = <<"1", ":", "3", "0">>
    /\ Stored[call.index].score_home = << <<"1", "0", "0">> >>
    /\ Stored[call.index].score_away = << <<"9", "7">> >>
    /\ ret = [exc |-> "none", val |-> 5]

\* C5: whatever the event's action type, period, clock string and score
\* fields, calculate_importance returns an integer in 0..5.
C5_ImportanceAlwaysInRange ==
    call.op = "calculate_importance" => ret.exc = "none" /\ ret.val \in 0..5

\* the stored events filter_by_clutch_time(events, minutes) is to keep
ClutchEvents(minutes) ==
    SelectSeq(Indices(Stored),
              LAMBDA i : /\ Stored[i].period >= 4
                         /\ Contains(Stored[i].clock, ":")
                         /\ PyInt(SplitHead(Stored[i].clock, ":")).exc = "none"
                         /\ PyInt(SplitHead(Stored[i].clock, ":")).val <= minutes)

\* C6: filter_by_clutch_time(events, minutes) keeps, in order, exactly the
\* events of period >= 4 whose clock minute (the text before the colon) is
\* <= minutes; an event whose clock has no colon is left out and does not
\* make the call raise.  (The call returns whenever every clock is without
\* a colon or has a number before it.)
C6_ClutchTimeFilter ==
    call.op = "filter_by_clutch_time" =>
        /\ (\A i \in DOMAIN Stored : NumericClock(Stored[i])) => ret.exc = "none"
        /\ ret.exc = "none" =>
              /\ ret.val.items = ClutchEvents(call.minutes)
              /\ \A i \in Range(ret.val.items) : Contains(Stored[i].clock, ":")

\* C6 witness: of a late event without a colon in its clock and a late
\* event inside the threshold, the call returns the second alone
C6_Witness ==
    /\ call.op = "filter_by_clutch_time"
    /\ ret.exc = "none"
    /\ Len(Stored) = 2
    /\ Stored[1].period >= 4 /\ ~Contains(Stored[1].clock, ":")
    /\ ret.val.items = <<2>>

\* C11: in get_game_status(), when the game clock parses as a duration of s
\* whole seconds, time_remaining is the text mm:ss with mm = s div 60 and
\* ss = s mod 60 (below 60), both padded to two digits; when the parser
\* signals a format error, time_remaining is the raw clock string and the
\* other fields are still returned.
C11_TimeRemainingOrRawClock ==
    call.op = "get_game_status" =>
        LET clock == game.game_data.game_clock
            parsed == ParseDuration(clock)
            t == ret.val.time_remaining
            n == Len(t)
        IN  /\ ret.exc = "none"
            /\ parsed.exc = "none" =>
                  /\ n >= 5
                  /\ t[n - 2] = ":"
                  /\ AllDigits(SubSeq(t, 1, n - 3)) /\ AllDigits(SubSeq(t, n - 1, n))
                  /\ DigitsVal(SubSeq(t, 1, n - 3)) = parsed.val \div 60
                  /\ DigitsVal(SubSeq(t, n - 1, n)) = parsed.val % 60
                  /\ DigitsVal(SubSeq(t, n - 1, n)) < 60
            /\ parsed.exc # "none" =>
                  /\ t = clock
                  /\ ret.val.current_period = game.game_data.period
                  /\ ret.val.home_score = game.game_data.home_team.score
                  /\ ret.val.away_score = game.game_data.away_team.score

\* C11 witness: the clock "5:30" is no duration, and the status carries it
\* unchanged next to the scores
C11_Witness ==
    /\ call.op = "get_game_status"
    /\ game.game_data.game_clock = <<"5", ":", "3", "0">>
    /\ ParseDuration(game.game_data.game_clock).exc = "ValueError"
    /\ ret.exc = "none"
    /\ ret.val.time_remaining = <<"5", ":", "3", "0">>
    /\ ret.val.home_score = 98

\* the minutes string of the payload under construction (the default when
\* the payload has none)
PayloadMinutes == GetOrDefault(call.payload, "minutes")

\* h hundredths is seconds / 60 rounded to two decimals
IsRoundedMinutes(h, seconds) == 3 * h - 5 * seconds \in {-1, 0, 1}

C13_EventPeriodAtLeastOne ==
    (call # Idle /\ call.op = "Game") =>
        /\ ret.exc = "none" => \A i \in DOMAIN Actions(ret.val) : Actions(ret.val)[i].period >= 1
        /\ (\E i \in DOMAIN call.payload.actions :
                /\ call.payload.actions[i].period # None
                /\ call.payload.actions[i].period[1] < 1) => ret.exc = "ValidationError"

\* C19: in every Game that construction accepts, the period of the stored
\* events is non-decreasing in stored order.
C19_PeriodNonDecreasing ==
    (call # Idle /\ call.op = "Game" /\ ret.exc = "none") =>
        \A i, j \in DOMAIN Actions(ret.val) :
            i < j => Actions(ret.val)[i].period <= Actions(ret.val)[j].period

\* C20: in every statistics record that construction accepts, team level
\* and player level, made <= attempted for field goals, three-pointers and
\* free throws.
C20_MadeAtMostAttempted ==
    (call # Idle /\ call.op \in {"PlayerStatistics", "TeamStatistics"}
        /\ call.stage = "fields" /\ ret.exc = "none") =>
        /\ ret.val.field_goals_made <= ret.val.field_goals_attempted
        /\ ret.val.three_pointers_made <= ret.val.three_pointers_attempted
        /\ ret.val.free_throws_made <= ret.val.free_throws_attempted

\* C14: an error met while a derived query (filter_events, get_shot_data,
\* get_assisted_shot_data, get_team_shot_data) is computed is caught at
\* that query and never reaches the caller.
C14_QueryErrorsAreCaught ==
    call.op \in {"filter_events", "get_shot_data",
                 "get_assisted_shot_data", "get_team_shot_data"} => ret.exc = "none"

\* C15: no query method changes the aggregate: every query call leaves the
\* status, period, clock, scores, rosters and the play_by_play.actions list
\* of the Game exactly as they were.
C15_QueriesLeaveGameUnchanged ==
    [][(call = Idle /\ call' # Idle) => game' = game]_vars

\* C15 witness: filter_events has returned one of three stored events, and
\* the three are still stored
C15_Witness ==
    /\ call.op = "filter_events"
    /\ ret.exc = "none"
    /\ ret.val.id = "new"
    /\ Len(ret.val.items) = 1
    /\ Len(Stored) = 3

\* C16: whatever its arguments, no predicate at all included, filter_events
\* returns a new list and not the stored play_by_play.actions, so what the
\* caller then does to the returned list leaves the stored list unchanged.
C16_ReturnedListIsNew ==
    [][(call.op = "filter_events" /\ call' = Idle) => game' = game]_vars

\* C17: when action_types is given, whatever the set, the empty one
\* included, an event is returned if and only if it passes the other
\* supplied predicates and its action_type is in action_types.
C17_ActionTypesIsMembershipTest ==
    (call.op = "filter_events" /\ call.action_types # None) =>
        /\ ret.exc = "none"
        /\ \A i \in DOMAIN Stored :
              i \in Range(ret.val.items)
                  <=> /\ PassesSupplied(Stored[i], call)
                      /\ Stored[i].action_type \in call.action_types[1]

\* C18: two filters applied one after the other equal one call with both
\* predicates: for every event list and all predicates a and b,
\* filter_multi(filter_multi(E, a), b) = filter_multi(E, a and b)
\* = filter_multi(filter_multi(E, b), a).
C18_FilterMultiComposes ==
    call.op = "filter_multi" =>
        LET a_then_b == ret.val.a_then_b
            both == ret.val.both
            b_then_a == ret.val.b_then_a
        IN  /\ a_then_b.exc = both.exc
            /\ b_then_a.exc = both.exc
            /\ both.exc = "none" =>
                  /\ a_then_b.val.items = both.val.items
                  /\ b_then_a.val.items = both.val.items

\* C21: right after add_player(p), whatever the index held before,
\* get_player_id of p's normalized full name is p.person_id and
\* get_player_name of p.person_id is that normalized full name.
C21_AddThenResolve ==
    call.op = "add_player" =>
        /\ GetPlayerId(name_mapping, NormalizeName(call.player.name))
               = Return(Some(call.player.person_id))
        /\ GetPlayerName(name_mapping, call.player.person_id)
               = Return(Some(NormalizeName(call.player.name)))

\* a player whose name needed normalizing is added to an index that already
\* maps both ids and its case-folded key
C21_Witness ==
    /\ call.op = "add_player"
    /\ NormalizeName(call.player.name) # call.player.name
    /\ Cardinality(DOMAIN name_mapping.id_to_name) = 2
    /\ Cardinality(DOMAIN name_mapping.name_to_id) = 3

\* C22: get_player_id(name) returns the id stored under the exact normalized
\* full name when there is one, otherwise the id stored under the
\* case-folded key, otherwise nothing; it never raises.
C22_ExactThenCaseFolded ==
    call.op = "get_player_id" =>
        LET n == NormalizeName(call.name)
        IN  /\ ret.exc = "none"
            /\ ret.val = IF n \in DOMAIN name_mapping.name_to_id
                         THEN Some(name_mapping.name_to_id[n])
                         ELSE IF Lower(n) \in DOMAIN name_mapping.normalized_name_to_id
                         THEN Some(name_mapping.normalized_name_to_id[Lower(n)])
                         ELSE None

\* a lookup that misses the exact key and is answered by the case-folded one
C22_Witness ==
    /\ call.op = "get_player_id"
    /\ NormalizeName(call.name) \notin DOMAIN name_mapping.name_to_id
    /\ name_mapping.name_to_id # EmptyDict
    /\ ret.val # None

\* C23: after clear() all three maps are empty, and get_player_id and
\* get_player_name return nothing until a player is added again.
C23_ClearEmptiesTheIndex ==
    [][/\ call'.op = "clear" => name_mapping' = EmptyMapping
       /\ (name_mapping = EmptyMapping /\ call'.op \notin {"add_player", "parse_player_list"})
              => /\ name_mapping' = EmptyMapping
                 /\ call'.op \in {"get_player_id", "get_player_name"} => ret' = Return(None)]_vars

\* clear() has returned and left the three maps empty
C23_Witness ==
    /\ call.op = "clear"
    /\ ret = Return(None)
    /\ name_mapping = EmptyMapping

\* the lower-cased bare last names of the players of the model
LastNameKeys == {Lower(LastName(p)) : p \in Players}

\* C24: once a lower-cased bare last-name key maps to an id, no later
\* add_player call changes the id it maps to (until the index is cleared).
C24_LastNameKeyFirstWriterWins ==
    [][call'.op = "add_player" =>
          \A k \in LastNameKeys \cap DOMAIN name_mapping.normalized_name_to_id :
              /\ k \in DOMAIN name_mapping'.normalized_name_to_id
              /\ name_mapping'.normalized_name_to_id[k] = name_mapping.normalized_name_to_id[k]]_vars

\* the players of a payload's well-formed rows (none when the payload holds
\* no row set)
PayloadPlayers(data) ==
    IF NoResultSets(data) \/ RowSet(data).exc # "none" THEN {}
    ELSE {PlayerOfRow(row).val :
             row \in {r \in Range(RowSet(data).val) : PlayerOfRow(r).exc = "none"}}

\* C25: when parse_player_list returns, whatever the payload, the index
\* holds mappings only for players of that payload.
C25_IndexHoldsOnlyThePayload ==
    call.op = "parse_player_list" =>
        LET ps == PayloadPlayers(call.data)
        IN  /\ \A n \in DOMAIN name_mapping.name_to_id :
                   \E p \in ps : /\ NormalizeName(p.name) = n
                                 /\ p.person_id = name_mapping.name_to_id[n]
            /\ \A i \in DOMAIN name_mapping.id_to_name :
                   \E p \in ps : /\ p.person_id = i
                                 /\ NormalizeName(p.name) = name_mapping.id_to_name[i]
            /\ \A k \in DOMAIN name_mapping.normalized_name_to_id :
                   \E p \in ps : /\ k \in {Lower(NormalizeName(p.name)), Lower(LastName(p))}
                                 /\ p.person_id = name_mapping.normalized_name_to_id[k]

\* C27: the name -> id map and the id -> name map are inverse to each other
\* after any sequence of add_player and clear calls.
C27_MapsAreMutuallyInverse ==
    /\ \A n \in DOMAIN name_mapping.name_to_id :
           /\ name_mapping.name_to_id[n] \in DOMAIN name_mapping.id_to_name
           /\ name_mapping.id_to_name[name_mapping.name_to_id[n]] = n
    /\ \A i \in DOMAIN name_mapping.id_to_name :
           /\ name_mapping.id_to_name[i] \in DOMAIN name_mapping.name_to_id
           /\ name_mapping.name_to_id[name_mapping.id_to_name[i]] = i

\* the index a rebuild leaves once it has finished
RebuiltIndex == ParsePlayerList(rebuild.before, rebuild.data).mapping

\* the ids and the names an index maps, in either direction
MappedIds(m) ==
    DOMAIN m.id_to_name \cup Range(m.name_to_id) \cup Range(m.normalized_name_to_id)
MappedNames(m) == DOMAIN m.name_to_id \cup Range(m.id_to_name)

\* C26: a reader's get_player_id / get_player_name, interleaved anywhere with
\* a single writer's rebuild, never raises, and returns nothing, or an id
\* (a name) that the index mapped before the rebuild began or maps once the
\* rebuild has finished.
C26_ReaderSeesOldNewOrNothing ==
    (call.op \in {"get_player_id", "get_player_name"} /\ call.stage = "returned") =>
        /\ ret.exc = "none"
        /\ \/ ret.val = None
           \/ /\ call.op = "get_player_id"
              /\ ret.val[1] \in MappedIds(rebuild.before) \cup MappedIds(RebuiltIndex)
           \/ /\ call.op = "get_player_name"
              /\ ret.val[1] \in MappedNames(rebuild.before) \cup MappedNames(RebuiltIndex)

\* a transient miss: in the middle of the rebuild a name that resolves both
\* before and after it comes back empty
C26_Witness ==
    /\ rebuild.pc \notin {"start", "done"}
    /\ call.op = "get_player_id"
    /\ call.stage = "returned"
    /\ ret = Return(None)
    /\ GetPlayerId(rebuild.before, call.key).val # None
    /\ GetPlayerId(RebuiltIndex, call.key).val # None

\* the sync_boxscore call in progress, and the call once it has returned
Syncing == call.op = "sync_boxscore"
SyncReturned == call.op = "sync_boxscore" /\ call.pc = "returned"

\* C28: _save_boxscore_data is all-or-nothing.  No player row becomes
\* durable before the commit that follows the last row; when extraction or
\* a row's save raises, the durable table is as the call found it and
\* sync_boxscore reports "failed" with items_succeeded 0; when the call
\* reports "success", every row of the payload is durable.
C28_SaveIsAllOrNothing ==
    Syncing =>
        /\ call.pc \in {"save", "save_row", "except"}
               => db.committed.statistics = call.before
        /\ (call.pc = "returned" /\ ret.val.status = "failed")
               => /\ db.committed.statistics = call.before
                  /\ ret.val.items_succeeded = 0
        /\ (call.pc = "returned" /\ ret.val.status = "success")
               => \A k \in DOMAIN call.player_stats :
                      \E j \in DOMAIN db.committed.statistics :
                          SameKey(db.committed.statistics[j], call.player_stats[k])

\* a save that raised after a row had been written, rolled back and
\* reported as failed, with its history row recorded
C28_Witness ==
    /\ SyncReturned
    /\ ret.val.status = "failed"
    /\ call.success_count >= 1
    /\ call.i <= Len(call.player_stats)
    /\ ~call.inserts[1].failed
    /\ call.before # <<>>
    /\ db.committed.statistics = call.before

\* C29: every sync_boxscore call returns a result (no exception leaves it),
\* attempts exactly one history insert, with the status of the result, and
\* reports "success" only when at least one player row was saved; a failed
\* history insert does not change the result.
C29_OneHistoryInsertPerCall ==
    SyncReturned =>
        /\ ret.exc = "none"
        /\ Len(call.inserts) = 1
        /\ call.inserts[1].status = ret.val.status
        /\ ret.val.status \in {"success", "failed"}
        /\ ret.val.status = "success" => ret.val.items_succeeded >= 1
        /\ ret.val.status = "success" =>
               Len(db.committed.statistics) >= 1 /\ call.success_count >= 1
        /\ ret.val = IF call.i > Len(call.player_stats) /\ call.success_count > 0
                     THEN [status |-> "success", items_succeeded |-> call.success_count]
                     ELSE [status |-> "failed", items_succeeded |-> 0]

\* rows were saved and committed, the history insert failed, and the call
\* still reports success
C29_Witness ==
    /\ SyncReturned
    /\ ret.val.status = "success"
    /\ call.inserts[1].failed
    /\ db.committed.history = <<>>

\* a row without last_updated_at
WithoutTimestamp(row) == [c \in DOMAIN row \ {"last_updated_at"} |-> row[c]]

\* the rows of a game, without last_updated_at
GameRows(statistics, game_id) ==
    {WithoutTimestamp(statistics[k]) :
        k \in {j \in DOMAIN statistics : statistics[j].game_id = game_id}}

\* every key the payload writes already holds the payload's last row for it
AlreadySynced(statistics, player_stats) ==
    \A k \in DOMAIN player_stats :
        (\A j \in (k + 1)..Len(player_stats) : ~SameKey(player_stats[j], player_stats[k]))
            => \E r \in DOMAIN statistics :
                   WithoutTimestamp(statistics[r]) = WithoutTimestamp(player_stats[k])

=============================================================================
